---- MODULE Spec2Model ----
(***************************************************************************)
(* Request orchestration layer of the SEC filing analyzer backend:         *)
(*   - app/utils/deduplication.py   request coalescer (deduplicate_request) *)
(*   - app/main.py                  answer cache, chat and compare          *)
(*   - app/agents/fast_rag.py       fast pipeline and its retrieval cache   *)
(*   - app/agents/retriever_agent.py retriever agent and its cache          *)
(* The event loop is single threaded: code between two suspension points   *)
(* is one atomic action.                                                   *)
(***************************************************************************)
EXTENDS Integers, Sequences, FiniteSets, TLC

\* ------------------------------------------------------------------------
\* Bounds of the model
\* ------------------------------------------------------------------------
NCallers == 3

Callers == 1..NCallers

\* ------------------------------------------------------------------------
\* Strings are sequences of one-character strings; str.upper, str.lower,
\* str.strip and slicing are computed character by character.
\* ------------------------------------------------------------------------
LowerLetters ==
    <<"a","b","c","d","e","f","g","h","i","j","k","l","m",
      "n","o","p","q","r","s","t","u","v","w","x","y","z">>

UpperLetters ==
    <<"A","B","C","D","E","F","G","H","I","J","K","L","M",
      "N","O","P","Q","R","S","T","U","V","W","X","Y","Z">>

IndexIn(ch, s) ==
    IF \E i \in 1..Len(s) : s[i] = ch
    THEN CHOOSE i \in 1..Len(s) : s[i] = ch
    ELSE 0

UpperChar(ch) ==
    LET i == IndexIn(ch, LowerLetters) IN IF i = 0 THEN ch ELSE UpperLetters[i]

LowerChar(ch) ==
    LET i == IndexIn(ch, UpperLetters) IN IF i = 0 THEN ch ELSE LowerLetters[i]

upper(s) == [i \in 1..Len(s) |-> UpperChar(s[i])]

lower(s) == [i \in 1..Len(s) |-> LowerChar(s[i])]

strip(s) ==
    LET keep == {i \in 1..Len(s) : s[i] # " "}
    IN  IF keep = {} THEN <<>>
        ELSE SubSeq(s, CHOOSE i \in keep : \A j \in keep : i <= j,
                       CHOOSE i \in keep : \A j \in keep : j <= i)

\* s[:n]
Prefix(s, n) == SubSeq(s, 1, IF Len(s) < n THEN Len(s) ELSE n)

\* str.split(): the maximal runs of non-blank characters, in order
RECURSIVE split(_)
split(s) ==
    IF s = <<>> THEN <<>>
    ELSE IF Head(s) = " " THEN split(Tail(s))
    ELSE LET blanks == {i \in 1..Len(s) : s[i] = " "}
             stop   == IF blanks = {} THEN Len(s) + 1
                       ELSE CHOOSE i \in blanks : \A j \in blanks : i <= j
         IN  <<SubSeq(s, 1, stop - 1)>> \o split(SubSeq(s, stop, Len(s)))

Range(f) == {f[i] : i \in DOMAIN f}

\* dict helpers: d[k] = v, d.pop(k, None), d[k] += 1
Put(d, k, v) == [x \in DOMAIN d \cup {k} |-> IF x = k THEN v ELSE d[x]]

Pop(d, k) == [x \in DOMAIN d \ {k} |-> d[x]]

Bump(d, k) == Put(d, k, IF k \in DOMAIN d THEN d[k] + 1 ELSE 1)

CountOf(d, k) == IF k \in DOMAIN d THEN d[k] ELSE 0

\* An optional value: None is <<>>, a value v is <<v>>
None == <<>>

Some(v) == <<v>>

\* a keyword argument that was given as None
NoArg == "None"

\* ------------------------------------------------------------------------
\* State
\* ------------------------------------------------------------------------
VARIABLES
    pc,                 \* position of each caller inside deduplicate_request
    req,                \* the arguments each caller was invoked with
    task_of,            \* local `task` / `existing_task` of each caller
    outcome,            \* what deduplicate_request gives back to each caller
    lockHolder,         \* _dedup_lock: the caller holding it, or 0
    lockWaiters,        \* _dedup_lock: FIFO of callers suspended in acquire()
    _pending_requests,  \* deduplication.py: request_key -> task
    tasks               \* every task made by asyncio.create_task(handler(...))

VARIABLES
    now,                \* time.time(), in seconds
    _ANSWER_CACHE,      \* main.py: cache_key -> (ts, value)
    response,           \* what the chat endpoint answered to each caller
    fast_cache,         \* fast_rag.py _RETRIEVAL_CACHE: key -> (ts, value)
    agent_cache,        \* retriever_agent.py _RETRIEVAL_CACHE: key -> (ts, value)
    calls,              \* calls made to the search and generation collaborators
    cmp,                \* the compare request being served
    last,               \* the latest cache accessor / retrieve call and its result
    written             \* per cache and key, the set calls made so far (observation)

dedupVars ==
    <<pc, req, task_of, outcome, lockHolder, lockWaiters, _pending_requests, tasks>>

\* touched by the chat endpoint when deduplicate_request comes back
chatVars == <<_ANSWER_CACHE, response>>

restVars == <<now, fast_cache, agent_cache, calls, cmp, last, written>>

vars == <<dedupVars, chatVars, restVars>>

\* ------------------------------------------------------------------------
\* TTL caches: an entry is (ts, value)
\* ------------------------------------------------------------------------
_ANSWER_CACHE_TTL == 900

_ANSWER_CACHE_MAX_SIZE == 500

retrieval_cache_ttl_seconds == 600

Entry(v) == [ts |-> now, value |-> v]

\* the comparison turned: an entry of age exactly ttl counts as expired
ExpiredAtTTL(e, ttl) == now - e.ts >= ttl

\* `if time.time() - ts > ttl`
Expired(e, ttl) == now - e.ts > ttl

\* main.py _get_cache_key; the md5 of key_str is taken as injective
_get_cache_key(ticker, question, model_provider) ==
    [ticker |-> upper(ticker),
     question |-> Prefix(strip(lower(question)), 100),
     model_provider |-> model_provider]

\* main.py _get_cached_answer: the value returned ...
_get_cached_answer(cache_key) ==
    IF cache_key \notin DOMAIN _ANSWER_CACHE THEN None
    ELSE IF Expired(_ANSWER_CACHE[cache_key], _ANSWER_CACHE_TTL) THEN None
    ELSE Some(_ANSWER_CACHE[cache_key].value)

\* ... and the cache it leaves behind (an expired entry is popped)
AnswerCacheAfterGet(cache_key) ==
    IF /\ cache_key \in DOMAIN _ANSWER_CACHE
       /\ Expired(_ANSWER_CACHE[cache_key], _ANSWER_CACHE_TTL)
    THEN Pop(_ANSWER_CACHE, cache_key)
    ELSE _ANSWER_CACHE

\* main.py _set_cached_answer, applied to cache contents `cache`
_set_cached_answer(cache, cache_key, value) == Put(cache, cache_key, Entry(value))

\* fast_rag.py FastRAGAgent._cache_key
_cache_key_fast(question, ticker, search_mode) ==
    [ticker |-> ticker,
     search_mode |-> search_mode,
     question |-> Prefix(strip(lower(question)), 100)]

\* fast_rag.py FastRAGAgent._get_cached_chunks
_get_cached_chunks(key) ==
    IF key \notin DOMAIN fast_cache THEN None
    ELSE IF Expired(fast_cache[key], retrieval_cache_ttl_seconds) THEN None
    ELSE Some(fast_cache[key].value)

FastCacheAfterGet(key) ==
    IF key \in DOMAIN fast_cache /\ Expired(fast_cache[key], retrieval_cache_ttl_seconds)
    THEN Pop(fast_cache, key)
    ELSE fast_cache

\* fast_rag.py FastRAGAgent._set_cached_chunks, under settings.enable_retrieval_cache
_set_cached_chunks(cache, enabled, key, value) ==
    IF enabled THEN Put(cache, key, Entry(value)) ELSE cache

\* retriever_agent.py RetrieverAgent._cache_key
_cache_key(question, ticker, sources, search_mode) ==
    [ticker |-> ticker, sources |-> sources, search_mode |-> search_mode,
     question |-> question]

\* ttl = max(1, self.settings.retrieval_cache_ttl_seconds)
AgentTTL == IF retrieval_cache_ttl_seconds < 1 THEN 1 ELSE retrieval_cache_ttl_seconds

\* retriever_agent.py RetrieverAgent._get_cached
_get_cached(cache, enabled, key) ==
    IF ~enabled THEN None
    ELSE IF key \notin DOMAIN cache THEN None
    ELSE IF Expired(cache[key], AgentTTL) THEN None
    ELSE Some(cache[key].value)

AgentCacheAfterGet(cache, enabled, key) ==
    IF enabled /\ key \in DOMAIN cache /\ Expired(cache[key], AgentTTL)
    THEN Pop(cache, key)
    ELSE cache

\* retriever_agent.py RetrieverAgent._set_cached
_set_cached(cache, enabled, key, value) ==
    IF enabled THEN Put(cache, key, Entry(value)) ELSE cache

\* `sub in s` for strings
Contains(s, sub) ==
    \E i \in 0..(Len(s) - Len(sub)) : SubSeq(s, i + 1, i + Len(sub)) = sub

\* ------------------------------------------------------------------------
\* app/agents/router_agent.py
\* ------------------------------------------------------------------------
simple_patterns ==
    { <<"h","e","l","l","o">>,
      <<"h","i">>,
      <<"h","e","y">>,
      <<"g","r","e","e","t","i","n","g","s">>,
      <<"t","h","a","n","k","s">>,
      <<"t","h","a","n","k"," ","y","o","u">>,
      <<"t","h","x">>,
      <<"o","k">>,
      <<"o","k","a","y">>,
      <<"g","o","t"," ","i","t">>,
      <<"b","y","e">>,
      <<"g","o","o","d","b","y","e">>,
      <<"s","e","e"," ","y","o","u">>,
      <<"h","e","l","p">>,
      <<"?">> }

\* RouterAgent.is_simple_query
is_simple_query(question) ==
    LET question_lower == lower(strip(question))
        words == split(question_lower)
    IN  \/ question_lower \in simple_patterns
        \/ Len(words) <= 2 /\ \A i \in 1..Len(words) : words[i] \in simple_patterns

\* RouterAgent._classify_deterministic: the keyword lists
risk_keywords ==
    { <<"r","i","s","k">>,
      <<"t","h","r","e","a","t">>,
      <<"c","h","a","l","l","e","n","g","e">>,
      <<"c","o","n","c","e","r","n">>,
      <<"v","u","l","n","e","r","a","b","i","l","i","t","y">>,
      <<"d","a","n","g","e","r">>,
      <<"e","x","p","o","s","u","r","e">>,
      <<"u","n","c","e","r","t","a","i","n","t","y">> }

financial_keywords ==
    { <<"r","e","v","e","n","u","e">>,
      <<"p","r","o","f","i","t">>,
      <<"m","a","r","g","i","n">>,
      <<"e","a","r","n","i","n","g","s">>,
      <<"f","i","n","a","n","c","i","a","l">>,
      <<"i","n","c","o","m","e">>,
      <<"e","p","s">>,
      <<"e","b","i","t","d","a">>,
      <<"c","a","s","h"," ","f","l","o","w">>,
      <<"d","e","b","t">>,
      <<"a","s","s","e","t","s">>,
      <<"l","i","a","b","i","l","i","t","i","e","s">>,
      <<"b","a","l","a","n","c","e"," ","s","h","e","e","t">>,
      <<"c","o","s","t">>,
      <<"e","x","p","e","n","s","e">>,
      <<"s","a","l","e","s">> }

trend_keywords ==
    { <<"t","r","e","n","d">>,
      <<"o","v","e","r"," ","t","i","m","e">>,
      <<"c","h","a","n","g","e">>,
      <<"g","r","o","w","t","h">>,
      <<"h","i","s","t","o","r","i","c","a","l">>,
      <<"c","o","m","p","a","r","e"," ","y","e","a","r">>,
      <<"y","o","y">>,
      <<"y","e","a","r"," ","o","v","e","r"," ","y","e","a","r">>,
      <<"q","u","a","r","t","e","r">>,
      <<"q","o","q">>,
      <<"i","n","c","r","e","a","s","e">>,
      <<"d","e","c","r","e","a","s","e">>,
      <<"t","r","a","j","e","c","t","o","r","y">> }

summary_keywords ==
    { <<"s","u","m","m","a","r","y">>,
      <<"o","v","e","r","v","i","e","w">>,
      <<"s","u","m","m","a","r","i","z","e">>,
      <<"k","e","y"," ","p","o","i","n","t","s">>,
      <<"m","a","i","n">>,
      <<"h","i","g","h","l","i","g","h","t">>,
      <<"b","r","i","e","f">>,
      <<"o","u","t","l","o","o","k">>,
      <<"s","t","r","a","t","e","g","y">>,
      <<"b","u","s","i","n","e","s","s">> }

\* `any(word in q_lower for word in words)`
AnyIn(words, q_lower) == \E word \in words : Contains(q_lower, word)

\* the same tests with the financial list tried before the risk list
FinancialFirst(question) ==
    LET q_lower == lower(question)
    IN  IF AnyIn(financial_keywords, q_lower) THEN "financial_metrics"
        ELSE IF AnyIn(risk_keywords, q_lower) THEN "risk_analysis"
        ELSE IF AnyIn(trend_keywords, q_lower) THEN "trend_analysis"
        ELSE IF AnyIn(summary_keywords, q_lower) THEN "summary"
        ELSE "general"

\* RouterAgent._classify_deterministic
_classify_deterministic(question) ==
    LET q_lower == lower(question)
    IN  IF AnyIn(risk_keywords, q_lower) THEN "risk_analysis"
        ELSE IF AnyIn(financial_keywords, q_lower) THEN "financial_metrics"
        ELSE IF AnyIn(trend_keywords, q_lower) THEN "trend_analysis"
        ELSE IF AnyIn(summary_keywords, q_lower) THEN "summary"
        ELSE "general"

\* RouterAgent.classify
classify(question) ==
    IF is_simple_query(question) THEN "simple" ELSE _classify_deterministic(question)

\* ------------------------------------------------------------------------
\* app/agents/fast_rag.py
\* ------------------------------------------------------------------------
\* What the search collaborator finds for a query under a filter: one
\* passage, labelled with the call that produced it.
Found(op, query, ticker, sources) ==
    <<[id |-> "p1", op |-> op, query |-> query, ticker |-> ticker, sources |-> sources]>>

CallOf(op, question, ticker, sources) ==
    [op |-> op, question |-> question, ticker |-> ticker, sources |-> sources]

\* FastRAGAgent.retrieve under settings.enable_retrieval_cache = enabled, when
\* the search collaborator answers `so` ("hits", "empty" or "error"):
\* the list returned, the cache and the collaborator calls afterwards.
retrieve_fast(question, ticker, search_mode, sources, enabled, so) ==
    LET cache_key == _cache_key_fast(question, ticker, search_mode)
        cached    == _get_cached_chunks(cache_key)
        looked    == FastCacheAfterGet(cache_key)
        op        == IF search_mode = "hybrid" THEN "hybrid_search" ELSE "search"
        called    == Bump(calls, CallOf(op, question, ticker, sources))
        results   == IF so = "hits" THEN Found(op, question, ticker, sources) ELSE <<>>
    IN  IF cached # None
        THEN [chunks |-> cached[1], cache |-> looked, calls |-> calls, hit |-> TRUE]
        ELSE IF so = "error"
        THEN \* except Exception: return []
             [chunks |-> <<>>, cache |-> looked, calls |-> called, hit |-> FALSE]
        ELSE [chunks |-> results,
              cache  |-> _set_cached_chunks(looked, enabled, cache_key, results),
              calls  |-> called, hit |-> FALSE]

Answer(kind, ticker, question, chunks) ==
    [kind |-> kind, ticker |-> ticker, question |-> question, chunks |-> chunks]

\* the dict FastRAGAgent.process returns
Result(error, answer, citations, flags) ==
    [error |-> error, answer |-> answer, citations |-> citations,
     retrieval_flags |-> flags, retrieval_cache_hit |-> FALSE]

NoError == ""

\* FastRAGAgent.process / run_fast_pipeline for request r, when the search
\* collaborator answers `so` and the generation collaborator `lo` ("ok",
\* "auth_error" or "error"): the dict returned, the retrieval cache and the
\* collaborator calls afterwards.
process(r, so, lo) ==
    LET enabled == r.overrides.enable_retrieval_cache
        got == retrieve_fast(r.question, r.ticker, r.search_mode, r.sources, enabled, so)
        asked == Bump(got.calls, CallOf("generate", r.question, r.ticker, r.sources))
    IN  IF is_simple_query(r.question)
        THEN [result |-> Result(NoError, Answer("simple", <<>>, <<>>, <<>>), <<>>, None),
              cache |-> fast_cache, calls |-> calls]
        ELSE IF got.chunks = <<>>
        THEN [result |-> Result(NoError, Answer("no_data", r.ticker, <<>>, <<>>), <<>>, None),
              cache |-> got.cache, calls |-> got.calls]
        ELSE IF lo = "ok"
        THEN [result |-> Result(NoError,
                                Answer("generated", r.ticker, r.question, got.chunks),
                                got.chunks, Some(r.overrides)),
              cache |-> got.cache, calls |-> asked]
        ELSE IF lo = "auth_error" /\ r.model_provider \in {"openai", "anthropic"}
        THEN [result |-> Result("Invalid API Key",
                                Answer("error", r.ticker, r.question, <<>>), <<>>, None),
              cache |-> got.cache, calls |-> asked]
        ELSE \* re-raised, caught by the outer handler of process
             [result |-> Result("error",
                                Answer("error", r.ticker, r.question, <<>>), <<>>, None),
              cache |-> got.cache, calls |-> asked]

\* ------------------------------------------------------------------------
\* app/agents/retriever_agent.py
\* ------------------------------------------------------------------------
\* the elements of seq in order, each kept the first time it occurs
RECURSIVE FirstOccurrences(_, _)
FirstOccurrences(seq, seen) ==
    IF seq = <<>> THEN <<>>
    ELSE IF Head(seq) \in seen THEN FirstOccurrences(Tail(seq), seen)
    ELSE <<Head(seq)>> \o FirstOccurrences(Tail(seq), seen \cup {Head(seq)})

\* RetrieverAgent._rewrite_queries under settings.enable_query_rewrite = enabled
_rewrite_queries(enabled, question, ticker) ==
    LET lower_q == lower(question)
        with_ticker == IF ticker # <<>> /\ ~Contains(lower_q, lower(ticker))
                       THEN <<ticker \o <<" ">> \o question>> ELSE <<>>
        with_form   == IF ~Contains(lower_q, <<"1","0","-","k">>)
                       THEN <<question \o <<" ","1","0","-","K"," ","f","i","l","i","n","g">>>> ELSE <<>>
        with_risk   == IF Contains(lower_q, <<"r","i","s","k">>)
                       THEN <<question \o <<" ","r","i","s","k"," ","f","a","c","t","o","r","s">>>> ELSE <<>>
    IN  IF ~enabled THEN <<question>>
        ELSE FirstOccurrences(<<question>> \o with_ticker \o with_form \o with_risk, {})

\* RetrieverAgent._score under settings.enable_section_boost = boost
_score(query, chunk, task_type, boost) ==
    LET text    == lower(chunk.text)
        tokens  == Range(split(lower(query)))
        overlap == Cardinality({t \in tokens : Contains(text, t)})
        section == lower(chunk.section)
    IN  overlap
        + (IF boost /\ task_type = "risk_analysis" /\ Contains(section, <<"r","i","s","k">>)
           THEN 2 ELSE 0)
        + (IF /\ boost /\ task_type = "trend_analysis"
              /\ \E k \in {<<"m","d","&","a">>, <<"m","a","n","a","g","e","m","e","n","t">>, <<"a","n","a","l","y","s","i","s">>} : Contains(section, k)
           THEN 1 ELSE 0)

\* a sort that puts an item ahead of the items of equal score already placed
RECURSIVE TiesReversed(_, _, _, _)
TiesReversed(results, query, task_type, boost) ==
    IF results = <<>> THEN <<>>
    ELSE LET n     == Len(results)
             front == TiesReversed(SubSeq(results, 1, n - 1), query, task_type, boost)
             x     == results[n]
             ahead == Cardinality({i \in 1..Len(front) :
                          _score(query, front[i], task_type, boost)
                              > _score(query, x, task_type, boost)})
         IN  SubSeq(front, 1, ahead) \o <<x>> \o SubSeq(front, ahead + 1, Len(front))

\* list.sort(key=score, reverse=True): the sort is stable, so an item goes
\* behind every item already placed whose score is not smaller
RECURSIVE SortedByScore(_, _, _, _)
SortedByScore(results, query, task_type, boost) ==
    IF results = <<>> THEN <<>>
    ELSE LET n     == Len(results)
             front == SortedByScore(SubSeq(results, 1, n - 1), query, task_type, boost)
             x     == results[n]
             ahead == Cardinality({i \in 1..Len(front) :
                          _score(query, front[i], task_type, boost)
                              >= _score(query, x, task_type, boost)})
         IN  SubSeq(front, 1, ahead) \o <<x>> \o SubSeq(front, ahead + 1, Len(front))

\* RetrieverAgent._rerank under settings.enable_rerank = enabled
_rerank(enabled, query, results, task_type, top_k, boost) ==
    IF ~enabled \/ results = <<>> THEN Prefix(results, top_k)
    ELSE Prefix(SortedByScore(results, query, task_type, boost), top_k)

\* `rid = r.get("id") or id(r)`: the id when there is one, else the object
Identity(r) == IF r.id # <<>> THEN r.id ELSE r.obj

\* what search call number i hands back: fresh objects for the items found
Returned(items, i) ==
    [j \in 1..Len(items) |->
        [id |-> items[j].id, text |-> items[j].text, section |-> items[j].section,
         obj |-> <<"object", i, j>>]]

\* results.extend(found or []) over the calls 1..n
RECURSIVE Extended(_, _)
Extended(found, n) ==
    IF n = 0 THEN <<>> ELSE Extended(found, n - 1) \o Returned(found[n].items, n)

\* a merge that keeps every item
RECURSIVE Undeduped(_, _)
Undeduped(results, seen_ids) ==
    IF results = <<>> THEN <<>>
    ELSE <<Head(results)>> \o Undeduped(Tail(results), seen_ids)

\* lines 174-181: de-duplicate by id if present
RECURSIVE Deduped(_, _)
Deduped(results, seen_ids) ==
    IF results = <<>> THEN <<>>
    ELSE IF Identity(Head(results)) \in seen_ids THEN Deduped(Tail(results), seen_ids)
    ELSE <<Head(results)>>
         \o Deduped(Tail(results), seen_ids \cup {Identity(Head(results))})

\* the collaborator calls made for queries 1..n
RECURSIVE Searched(_, _, _, _, _, _)
Searched(made, op, queries, n, ticker, sources) ==
    IF n = 0 THEN made
    ELSE Bump(Searched(made, op, queries, n - 1, ticker, sources),
              CallOf(op, queries[n], ticker, sources))

\* a handler that stores the empty list it returns
CaughtAndStored(cache, cache_key, enabled, called, made) ==
    [chunks |-> <<>>, cache |-> _set_cached(cache, enabled, cache_key, <<>>),
     calls |-> called, hit |-> FALSE, made |-> made, failed |-> TRUE,
     results |-> <<>>, deduped |-> <<>>]

\* `except Exception as e: ... return []` after search call number `made`
\* raised: nothing is stored under cache_key
Caught(cache, cache_key, enabled, called, made) ==
    [chunks |-> <<>>, cache |-> cache, calls |-> called, hit |-> FALSE,
     made |-> made, failed |-> TRUE, results |-> <<>>, deduped |-> <<>>]

\* RetrieverAgent.retrieve with the overrides `flags` applied, called when
\* _RETRIEVAL_CACHE is `cache` and the collaborator has been called `counts`
\* times, and search call number i answers found[i] (a list of items, or a
\* failure): the list returned, the cache and the collaborator calls
\* afterwards.
retrieve(cache, counts, question, ticker, sources, search_mode, top_k, task_type, flags, found) ==
    LET cache_key == _cache_key(question, ticker, sources, search_mode)
        cached    == _get_cached(cache, flags.enable_retrieval_cache, cache_key)
        looked    == AgentCacheAfterGet(cache, flags.enable_retrieval_cache, cache_key)
        queries   == _rewrite_queries(flags.enable_query_rewrite, question, ticker)
        op        == IF search_mode = "hybrid" THEN "hybrid_search" ELSE "search"
        failing   == {i \in 1..Len(queries) : ~found[i].ok}
        made      == IF failing = {} THEN Len(queries)
                     ELSE CHOOSE i \in failing : \A j \in failing : i <= j
        called    == Searched(counts, op, queries, made, ticker, sources)
        results   == Extended(found, Len(queries))
        deduped   == Deduped(results, {})
        reranked  == _rerank(flags.enable_rerank, question, deduped, task_type, top_k,
                             flags.enable_section_boost)
    IN  IF cached # None
        THEN [chunks |-> cached[1], cache |-> looked, calls |-> counts, hit |-> TRUE,
              made |-> 0, failed |-> FALSE, results |-> <<>>, deduped |-> <<>>]
        ELSE IF failing # {}
        THEN \* the exception of call `made` leaves the loop
             Caught(looked, cache_key, flags.enable_retrieval_cache, called, made)
        ELSE [chunks |-> reranked,
              cache  |-> _set_cached(looked, flags.enable_retrieval_cache, cache_key,
                                     reranked),
              calls  |-> called, hit |-> FALSE, made |-> made, failed |-> FALSE,
              results |-> results, deduped |-> deduped]

\* one retrieve call as RetrieverAgent.run makes it, and what it returned
RetrieveCall(search_mode, top_k, task_type, got) ==
    [search_mode |-> search_mode, top_k |-> top_k, task_type |-> task_type,
     chunks |-> got.chunks, hit |-> got.hit, made |-> got.made]

\* what RetrieverAgent.run hands on: the chunks of its last retrieve call,
\* the cache and the collaborator calls afterwards, and the calls it made
RunResult(got, retrieves) ==
    [chunks |-> got.chunks, cache |-> got.cache, calls |-> got.calls, hit |-> got.hit,
     retrieves |-> retrieves]

\* `chunks = self.retrieve(..., search_mode="hybrid", top_k=top_k, overrides=overrides)`
Fallback(call1, top_k, second) ==
    RunResult(second, <<call1, RetrieveCall("hybrid", top_k, "general", second)>>)

\* RetrieverAgent.run after its first retrieve call returned `first`: an empty
\* vector result is followed by one hybrid retrieve, made without task_type
\* (so with the default "general").
AfterFirst(state, top_k, flags, found2, first) ==
    LET call1 == RetrieveCall(state.search_mode, top_k, state.task_type, first)
    IN  IF first.chunks = <<>> /\ state.search_mode = "vector"
        THEN Fallback(call1, top_k,
                      retrieve(first.cache, first.calls, state.question, state.ticker,
                               state.sources, "hybrid", top_k, "general", flags, found2))
        ELSE RunResult(first, <<call1>>)

\* RetrieverAgent.run on the graph state: top_k is 8 for trend_analysis and 6
\* otherwise.
RetrieverRun(cache, counts, state, flags, found1, found2) ==
    LET top_k == IF state.task_type = "trend_analysis" THEN 8 ELSE 6
    IN  AfterFirst(state, top_k, flags, found2,
                   retrieve(cache, counts, state.question, state.ticker, state.sources,
                            state.search_mode, top_k, state.task_type, flags, found1))

\* AnalystAgent.run and ReporterAgent.run on what the retriever handed on.
\* The analyst calls the generation collaborator when there are chunks, the
\* reporter always; a failure of the collaborator (lo = "error") is turned
\* into an answer text by each of them.
AnalystThenReporter(r, task_type, lo, got) ==
    LET generate  == CallOf("generate", r.question, r.ticker, r.sources)
        analysed  == IF got.chunks = <<>> THEN got.calls ELSE Bump(got.calls, generate)
        reported  == Bump(analysed, generate)
        answer    == IF lo = "ok"
                     THEN Answer("generated", r.ticker, r.question, got.chunks)
                     ELSE Answer("error", r.ticker, r.question, <<>>)
    IN  [result |-> [Result(NoError, answer, got.chunks, Some(r.overrides))
                        EXCEPT !.retrieval_cache_hit = got.hit],
         task_type |-> task_type, cache |-> got.cache, calls |-> reported,
         retrieves |-> got.retrieves]

\* graph.py run_agent_pipeline for request r: the nodes router, retriever,
\* analyst and reporter run one after the other.
run_agent_pipeline(cache, counts, r, found1, found2, lo) ==
    LET task_type == classify(r.question)
        state     == [question |-> r.question, ticker |-> r.ticker, sources |-> r.sources,
                      search_mode |-> r.search_mode, task_type |-> task_type]
    IN  AnalystThenReporter(r, task_type, lo,
                            RetrieverRun(cache, counts, state, r.overrides, found1, found2))

\* ------------------------------------------------------------------------
\* app/utils/deduplication.py
\* ------------------------------------------------------------------------
\* params = {"ticker": ticker.upper(), "question": question.strip().lower(),
\*           **{k: v for k, v in sorted(kwargs.items()) if v is not None}}
\* The sha256 prefix of the JSON text is taken as injective on params.
_create_request_key(ticker, question, kwargs) ==
    [ticker   |-> upper(ticker),
     question |-> lower(strip(question)),
     extra    |-> [k \in {n \in DOMAIN kwargs : kwargs[n] # NoArg} |-> kwargs[k]]]

NoTask == 0

TaskIds == 1..NCallers

NoReq == [via |-> "none"]

NoOutcome == [kind |-> "none"]

Cancelled == [kind |-> "cancelled"]

Resolved == {"done", "failed", "cancelled"}

key_of(c) == _create_request_key(req[c].ticker, req[c].question, req[c].kwargs)

Remove(q, c) == SelectSeq(q, LAMBDA x : x # c)

\* A caller suspended in _dedup_lock.acquire() that is handed the lock.
Granted(p) ==
    CASE p = "lock_wait"    -> "lock_ready"
      [] p = "inner_wait"   -> "inner_ready"
      [] p = "finally_wait" -> "finally_ready"
      [] OTHER              -> p

\* asyncio.Lock.release(): unlock and wake the first waiter, which owns the
\* lock from then on (later acquirers queue behind it). pcNew is pc after
\* the releasing caller's own move, queue the waiters at that moment.
ReleaseLock(pcNew, queue) ==
    IF queue = <<>>
    THEN /\ lockHolder' = 0
         /\ lockWaiters' = <<>>
         /\ pc' = pcNew
    ELSE /\ lockHolder' = Head(queue)
         /\ lockWaiters' = Tail(queue)
         /\ pc' = [pcNew EXCEPT ![Head(queue)] = Granted(@)]

\* What `await task` gives the awaiting caller once the task is resolved.
Awaited(t, coalesced) ==
    CASE tasks[t].state = "done"   ->
             [kind |-> "return", result |-> tasks[t].result[1], coalesced |-> coalesced]
      [] tasks[t].state = "failed" -> [kind |-> "raise"]
      [] OTHER                     -> Cancelled

NoBody == [type |-> "none"]

NoResponse == [status |-> 0, body |-> NoBody]

\* main.py chat, lines 559-594: the ChatResponse built from a pipeline result
ChatResponseOf(result, overrides) ==
    [type |-> "ChatResponse", answer |-> result.answer, citations |-> result.citations,
     flags |-> IF result.retrieval_flags # None THEN result.retrieval_flags[1] ELSE overrides,
     cache_hit |-> result.retrieval_cache_hit]

\* main.py chat, lines 549-620: what the endpoint does with what
\* deduplicate_request gave back
ChatAfter(c, out) ==
    LET r == req[c]
        cache_key == _get_cache_key(r.ticker, r.question, r.model_provider)
    IN  CASE out.kind = "return" /\ out.result.error = NoError ->
                 LET resp == ChatResponseOf(out.result, r.overrides)
                 IN  /\ _ANSWER_CACHE' = _set_cached_answer(_ANSWER_CACHE, cache_key, resp)
                     /\ response' = [response EXCEPT ![c] = [status |-> 200, body |-> resp]]
          [] out.kind = "return" ->
                 \* raise HTTPException(status_code=500, detail=error_detail)
                 /\ response' = [response EXCEPT ![c] =
                        [status |-> 500, body |-> [type |-> "detail", answer |-> out.result.answer]]]
                 /\ UNCHANGED _ANSWER_CACHE
          [] out.kind = "raise" ->
                 /\ response' = [response EXCEPT ![c] =
                        [status |-> 500,
                         body |-> [type |-> "detail", answer |-> Answer("error", <<>>, <<>>, <<>>)]]]
                 /\ UNCHANGED _ANSWER_CACHE
          [] OTHER -> \* CancelledError is not an Exception: no response
                 UNCHANGED chatVars

\* deduplicate_request hands `out` back to caller c.
Deliver(c, out) ==
    /\ outcome' = [outcome EXCEPT ![c] = out]
    /\ IF req[c].via = "chat" THEN ChatAfter(c, out) ELSE UNCHANGED chatVars

\* Lines 62-79, run by caller c while it holds _dedup_lock.
Critical(c, k) ==
    IF k \in DOMAIN _pending_requests
    THEN \* existing_task = _pending_requests[request_key]; then line 67 asks
         \* for _dedup_lock again: it is locked (by c itself, line 60) and
         \* asyncio.Lock is not re-entrant, so c suspends in acquire().
         /\ task_of' = [task_of EXCEPT ![c] = _pending_requests[k]]
         /\ lockHolder' = c
         /\ lockWaiters' = Append(lockWaiters, c)
         /\ pc' = [pc EXCEPT ![c] = "inner_wait"]
         /\ UNCHANGED <<outcome, _pending_requests, tasks>>
    ELSE \* task = asyncio.create_task(handler(**kwargs)); leave the lock;
         \* result = await task
         /\ tasks' = Append(tasks, [key |-> k, owner |-> c, state |-> "scheduled",
                                    result |-> None])
         /\ task_of' = [task_of EXCEPT ![c] = Len(tasks) + 1]
         /\ _pending_requests' = Put(_pending_requests, k, Len(tasks) + 1)
         /\ ReleaseLock([pc EXCEPT ![c] = "await_task"], lockWaiters)
         /\ UNCHANGED outcome

\* Lines 84-87 once c holds the lock: pop the key, leave the lock, and let
\* the pending return / exception out.
FinallyBody(c, out, queue) ==
    /\ _pending_requests' = Pop(_pending_requests, key_of(c))
    /\ ReleaseLock([pc EXCEPT ![c] = "done"], queue)
    /\ Deliver(c, out)

\* `finally: async with _dedup_lock:` entered with `out` pending.
Finally(c, out) ==
    IF lockHolder = 0 /\ lockWaiters = <<>>
    THEN FinallyBody(c, out, <<>>)
    ELSE /\ lockWaiters' = Append(lockWaiters, c)
         /\ pc' = [pc EXCEPT ![c] = "finally_wait"]
         /\ outcome' = [outcome EXCEPT ![c] = out]
         /\ UNCHANGED <<lockHolder, _pending_requests, chatVars>>

\* deduplicate_request(ticker, question, handler, **kwargs) up to its first
\* suspension.
Enter(c, k) ==
    IF lockHolder = 0 /\ lockWaiters = <<>>
    THEN Critical(c, k)
    ELSE /\ lockWaiters' = Append(lockWaiters, c)
         /\ pc' = [pc EXCEPT ![c] = "lock_wait"]
         /\ UNCHANGED <<task_of, outcome, lockHolder, _pending_requests, tasks>>

\* Callers are numbered in the order in which they arrive.
NextToArrive(c) == pc[c] = "idle" /\ \A d \in Callers : d < c => pc[d] # "idle"

Call(c, t, q, kw) ==
    /\ NextToArrive(c)
    /\ req' = [req EXCEPT ![c] =
                  [via |-> "direct", ticker |-> t, question |-> q, kwargs |-> kw]]
    /\ Enter(c, _create_request_key(t, q, kw))
    /\ UNCHANGED <<chatVars, restVars>>

\* A caller that was handed _dedup_lock runs on from its acquire().
LockGranted(c) ==
    /\ pc[c] \in {"lock_ready", "inner_ready", "finally_ready"}
    /\ lockHolder = c
    /\ UNCHANGED <<req, restVars>>
    /\ CASE pc[c] = "lock_ready" ->
                /\ Critical(c, key_of(c))
                /\ UNCHANGED chatVars
         [] pc[c] = "finally_ready" ->
                /\ FinallyBody(c, outcome[c], lockWaiters)
                /\ UNCHANGED <<task_of, tasks>>
         [] OTHER ->
                \* lines 68-71: `pass`, the inner block leaves the lock,
                \* then `await existing_task`
                /\ ReleaseLock([pc EXCEPT ![c] = "await_existing"], lockWaiters)
                /\ UNCHANGED <<task_of, outcome, _pending_requests, tasks, chatVars>>

\* A caller suspended in `await task` / `await existing_task` runs on once
\* the task is resolved.
AfterTask(c) ==
    /\ pc[c] \in {"await_task", "await_existing"}
    /\ tasks[task_of[c]].state \in Resolved
    /\ UNCHANGED <<req, task_of, tasks, restVars>>
    /\ IF pc[c] = "await_task"
       THEN Finally(c, Awaited(task_of[c], FALSE))
       ELSE \* lines 71-75, then the outer block of line 60 leaves a lock
            \* that the inner block already left
            /\ ReleaseLock([pc EXCEPT ![c] = "done"], lockWaiters)
            /\ Deliver(c, IF lockHolder = 0 THEN [kind |-> "raise"]
                           ELSE Awaited(task_of[c], TRUE))
            /\ UNCHANGED _pending_requests

\* The event loop starts the handler coroutine of a created task.
HandlerStart(t) ==
    /\ t \in 1..Len(tasks)
    /\ tasks[t].state = "scheduled"
    /\ tasks' = [tasks EXCEPT ![t].state = "running"]
    /\ UNCHANGED <<pc, req, task_of, outcome, lockHolder, lockWaiters,
                   _pending_requests, chatVars, restVars>>

\* The handler returns r, or raises.
HandlerFinish(t, r) ==
    /\ t \in 1..Len(tasks)
    /\ tasks[t].state = "running"
    /\ tasks' = [tasks EXCEPT ![t] =
                    IF r = "exception"
                    THEN [@ EXCEPT !.state = "failed"]
                    ELSE [@ EXCEPT !.state = "done", !.result = Some(r)]]
    /\ UNCHANGED <<pc, req, task_of, outcome, lockHolder, lockWaiters,
                   _pending_requests, chatVars, restVars>>

\* Task.cancel() on the awaited task (no asyncio.shield around it)
CancelAwaited(t) ==
    IF tasks[t].state \in Resolved THEN tasks
    ELSE [tasks EXCEPT ![t].state = "cancelled"]

\* The task running deduplicate_request for caller c is cancelled while it
\* is suspended: CancelledError is raised at the await it is suspended in.
Cancel(c) ==
    /\ pc[c] \in {"lock_wait", "lock_ready", "inner_wait", "inner_ready",
                  "await_task", "await_existing", "finally_wait", "finally_ready"}
    /\ UNCHANGED <<req, task_of, restVars>>
    /\ CASE pc[c] \in {"lock_wait", "finally_wait"} ->
                \* leaves the queue of acquire(); from the finally block the
                \* pop of line 87 is never reached
                /\ lockWaiters' = Remove(lockWaiters, c)
                /\ pc' = [pc EXCEPT ![c] = "done"]
                /\ Deliver(c, Cancelled)
                /\ UNCHANGED <<lockHolder, _pending_requests, tasks>>
         [] pc[c] \in {"lock_ready", "finally_ready"} ->
                \* woken by release() but cancelled before running: acquire()
                \* passes the lock on to the next waiter
                /\ ReleaseLock([pc EXCEPT ![c] = "done"], lockWaiters)
                /\ Deliver(c, Cancelled)
                /\ UNCHANGED <<_pending_requests, tasks>>
         [] pc[c] \in {"inner_wait", "inner_ready"} ->
                \* CancelledError leaves the inner acquire(), then the outer
                \* block of line 60 releases the lock
                /\ ReleaseLock([pc EXCEPT ![c] = "done"], Remove(lockWaiters, c))
                /\ Deliver(c, Cancelled)
                /\ UNCHANGED <<_pending_requests, tasks>>
         [] pc[c] = "await_task" ->
                \* the awaited task is cancelled with the caller, then the
                \* finally block runs with CancelledError pending
                /\ tasks' = CancelAwaited(task_of[c])
                /\ Finally(c, Cancelled)
         [] OTHER ->
                /\ tasks' = CancelAwaited(task_of[c])
                /\ pc' = [pc EXCEPT ![c] = "done"]
                /\ Deliver(c, Cancelled)
                /\ UNCHANGED <<lockHolder, lockWaiters, _pending_requests>>

\* ------------------------------------------------------------------------
\* The state after import: nothing pending, every cache empty.
\* ------------------------------------------------------------------------
NoCompare ==
    [state |-> "idle", request |-> NoReq, unique_tickers |-> <<>>, results |-> <<>>,
     piped |-> <<>>]

NoAccess == [op |-> "none", cache |-> "none"]

NoneWritten == [answer |-> <<>>, fast |-> <<>>, agent |-> <<>>]

InitIdle ==
    /\ pc = [c \in Callers |-> "idle"]
    /\ req = [c \in Callers |-> NoReq]
    /\ task_of = [c \in Callers |-> NoTask]
    /\ outcome = [c \in Callers |-> NoOutcome]
    /\ lockHolder = 0
    /\ lockWaiters = <<>>
    /\ _pending_requests = <<>>
    /\ tasks = <<>>
    /\ now = 0
    /\ response = [c \in Callers |-> NoResponse]
    /\ fast_cache = <<>>
    /\ agent_cache = <<>>
    /\ calls = <<>>
    /\ cmp = NoCompare
    /\ written = NoneWritten

\* ------------------------------------------------------------------------
\* The coalescer on its own: callers invoke deduplicate_request directly
\* with a handler that suspends, then returns a value or raises.
\* ------------------------------------------------------------------------
DedupTickers == {<<"A">>, <<"a">>, <<"B">>}

DedupQuestions == {<<"q">>}

DedupKwargs == {[model_provider |-> "openai", search_mode |-> NoArg]}

HandlerResults == {"r1", "r2"}

InitDedup == InitIdle /\ _ANSWER_CACHE = <<>> /\ last = NoAccess

NextDedup ==
    \/ \E c \in Callers, t \in DedupTickers, q \in DedupQuestions, kw \in DedupKwargs :
          Call(c, t, q, kw)
    \/ \E c \in Callers : LockGranted(c)
    \/ \E c \in Callers : AfterTask(c)
    \/ \E t \in 1..NCallers : HandlerStart(t)
    \/ \E t \in 1..NCallers, r \in HandlerResults \cup {"exception"} : HandlerFinish(t, r)
    \/ \E c \in Callers : Cancel(c)

SpecDedup == InitDedup /\ [][NextDedup]_vars

\* The event loop runs every callback that is ready; cancellation is up to
\* the environment.
DedupProgress ==
    \/ \E c \in Callers : LockGranted(c)
    \/ \E c \in Callers : AfterTask(c)
    \/ \E t \in 1..NCallers : HandlerStart(t)
    \/ \E t \in 1..NCallers, r \in HandlerResults \cup {"exception"} : HandlerFinish(t, r)

SpecDedupFair == SpecDedup /\ WF_vars(DedupProgress)

\* ------------------------------------------------------------------------
\* app/main.py: the chat and compare endpoints over the fast pipeline
\* ------------------------------------------------------------------------
NChats == 2

NAppChats == 1

MaxTime == 903

\* enough for every entry of every cache to expire
LongWait == 901

Flags(cache) ==
    [enable_rerank |-> FALSE, enable_query_rewrite |-> FALSE,
     enable_retrieval_cache |-> cache, enable_section_boost |-> FALSE]

ChatRequest(ticker, question, search_mode, sources, cache) ==
    [ticker |-> ticker, question |-> question, model_provider |-> "openai",
     search_mode |-> search_mode, sources |-> sources, overrides |-> Flags(cache)]

ChatRequests ==
    { ChatRequest(<<"A">>, <<"Q">>, "vector", "both", TRUE),
      ChatRequest(<<"a">>, <<"q">>, "vector", "both", TRUE),
      ChatRequest(<<"A">>, <<"h","i">>, "vector", "both", FALSE),
      ChatRequest(<<"A">>, <<"q">>, "hybrid", "sec", FALSE) }

CompareRequest(tickers) ==
    [tickers |-> tickers, question |-> <<"q">>, model_provider |-> "openai",
     search_mode |-> "vector", sources |-> "both", overrides |-> Flags(FALSE)]

CompareRequests ==
    { CompareRequest(<< <<"a">>, <<"A">>, <<" ","a"," ">>, <<"B">> >>),
      CompareRequest(<< <<"A">>, <<" ">>, <<"a">> >>),
      CompareRequest(<< <<"A">> >>) }

SearchOutcomes == {"hits", "empty", "error"}

GenerationOutcomes == {"ok", "auth_error", "error"}

\* time passes
Tick(d) ==
    /\ now + d <= MaxTime
    /\ now' = now + d
    /\ UNCHANGED <<dedupVars, chatVars, fast_cache, agent_cache, calls, cmp, last, written>>

\* POST /api/chat up to its first suspension (main.py lines 486-547)
ChatStart(c, r) ==
    LET cache_key == _get_cache_key(r.ticker, r.question, r.model_provider)
        cached_answer == _get_cached_answer(cache_key)
        kwargs == [model_provider |-> r.model_provider, search_mode |-> r.search_mode]
        asked == [via |-> "chat", ticker |-> r.ticker, question |-> r.question,
                  kwargs |-> kwargs, model_provider |-> r.model_provider,
                  search_mode |-> r.search_mode, sources |-> r.sources,
                  overrides |-> r.overrides]
    IN  /\ NextToArrive(c)
        /\ req' = [req EXCEPT ![c] = asked]
        /\ _ANSWER_CACHE' = AnswerCacheAfterGet(cache_key)
        /\ UNCHANGED restVars
        /\ IF cached_answer # None
           THEN \* return cached_answer
                /\ response' = [response EXCEPT ![c] =
                                  [status |-> 200, body |-> cached_answer[1]]]
                /\ pc' = [pc EXCEPT ![c] = "done"]
                /\ UNCHANGED <<task_of, outcome, lockHolder, lockWaiters,
                               _pending_requests, tasks>>
           ELSE IF is_simple_query(r.question)
           THEN /\ response' = [response EXCEPT ![c] =
                      [status |-> 200,
                       body |-> [type |-> "ChatResponse",
                                 answer |-> Answer("simple", <<>>, <<>>, <<>>),
                                 citations |-> <<>>, flags |-> [summary |-> "simple_query=true"],
                                 cache_hit |-> FALSE]]]
                /\ pc' = [pc EXCEPT ![c] = "done"]
                /\ UNCHANGED <<task_of, outcome, lockHolder, lockWaiters,
                               _pending_requests, tasks>>
           ELSE /\ Enter(c, _create_request_key(r.ticker, r.question, kwargs))
                /\ UNCHANGED response

\* The task made for execute_pipeline runs: run_fast_pipeline has no
\* suspension point, so the whole pipeline is one step of the event loop.
RunPipeline(t, so, lo) ==
    /\ t \in 1..Len(tasks)
    /\ tasks[t].state = "scheduled"
    /\ LET p == process(req[tasks[t].owner], so, lo)
       IN  /\ tasks' = [tasks EXCEPT ![t] = [@ EXCEPT !.state = "done",
                                                       !.result = Some(p.result)]]
           /\ fast_cache' = p.cache
           /\ calls' = p.calls
    /\ UNCHANGED <<pc, req, task_of, outcome, lockHolder, lockWaiters,
                   _pending_requests, chatVars, now, agent_cache, cmp, last, written>>

\* a loop that compares the trimmed identifiers before uppercasing them
RECURSIVE CaseSensitive(_, _)
CaseSensitive(tickers, unique_tickers) ==
    IF tickers = <<>> THEN [i \in 1..Len(unique_tickers) |-> upper(unique_tickers[i])]
    ELSE LET t == strip(Head(tickers))
         IN  CaseSensitive(Tail(tickers),
                           IF t # <<>> /\ t \notin Range(unique_tickers)
                           THEN Append(unique_tickers, t)
                           ELSE unique_tickers)

\* main.py compare, lines 787-791
RECURSIVE Normalize(_, _)
Normalize(tickers, unique_tickers) ==
    IF tickers = <<>> THEN unique_tickers
    ELSE LET t_upper == upper(strip(Head(tickers)))
         IN  Normalize(Tail(tickers),
                       IF t_upper # <<>> /\ t_upper \notin Range(unique_tickers)
                       THEN Append(unique_tickers, t_upper)
                       ELSE unique_tickers)

\* POST /api/compare up to asyncio.gather (main.py lines 784-881)
CompareStart(r) ==
    /\ cmp.state = "idle"
    /\ cmp' = IF Len(r.tickers) < 2 \/ Len(Normalize(r.tickers, <<>>)) < 2
              THEN [NoCompare EXCEPT !.state = "rejected", !.request = r]
              ELSE [state |-> "running", request |-> r,
                    unique_tickers |-> Normalize(r.tickers, <<>>), results |-> <<>>,
                    piped |-> <<>>]
    /\ UNCHANGED <<dedupVars, chatVars, now, fast_cache, agent_cache, calls, last, written>>

CompareResult(ticker, answer, flags_summary, cache_hit) ==
    [ticker |-> ticker, answer |-> answer, flags_summary |-> flags_summary,
     cache_hit |-> cache_hit]

\* a process_ticker that leaves the answer of a failed pipeline out
\* (cmp.piped keeps, for each result, whether the pipeline was run and
\* whether the dict it returned has an "error")
AnswerDropped(ticker, res, overrides) ==
    CompareResult(ticker,
                  IF res.error # NoError THEN Answer("generated", ticker, <<>>, <<>>)
                  ELSE res.answer,
                  overrides, res.retrieval_cache_hit)

\* process_ticker after the pipeline returned the dict res (main.py lines
\* 856-870): the answer and the flags of the dict go into the result
process_ticker(ticker, res, overrides) ==
    CompareResult(ticker, res.answer,
                  IF res.retrieval_flags # None THEN res.retrieval_flags[1] ELSE overrides,
                  res.retrieval_cache_hit)

\* process_with_limit(ticker) for the next ticker of the running compare:
\* the semaphore is free on entry and process_ticker never suspends, so
\* one ticker is one step of the event loop (main.py lines 819-878)
CompareTicker(so, lo) ==
    /\ cmp.state = "running"
    /\ Len(cmp.results) < Len(cmp.unique_tickers)
    /\ LET r == cmp.request
           ticker == cmp.unique_tickers[Len(cmp.results) + 1]
           cache_key == _get_cache_key(ticker, r.question, r.model_provider)
           cached == _get_cached_answer(cache_key)
           looked == AnswerCacheAfterGet(cache_key)
           p == process([r EXCEPT !.tickers = <<>>] @@ [ticker |-> ticker], so, lo)
           flags == IF p.result.retrieval_flags # None
                    THEN p.result.retrieval_flags[1] ELSE r.overrides
       IN  IF cached # None
           THEN /\ cmp' = [cmp EXCEPT !.results =
                              Append(@, CompareResult(ticker, cached[1].answer,
                                                      [summary |-> "cached=true"], TRUE)),
                                       !.piped = Append(@, None)]
                /\ _ANSWER_CACHE' = looked
                /\ UNCHANGED <<fast_cache, calls>>
           ELSE /\ cmp' = [cmp EXCEPT !.results =
                              Append(@, process_ticker(ticker, p.result, r.overrides)),
                                       !.piped = Append(@, Some(p.result.error # NoError))]
                /\ _ANSWER_CACHE' =
                       _set_cached_answer(looked, cache_key,
                           [type |-> "dict", answer |-> p.result.answer,
                            flags |-> flags])
                /\ fast_cache' = p.cache
                /\ calls' = p.calls
    /\ UNCHANGED <<dedupVars, response, now, agent_cache, last, written>>

\* asyncio.gather is complete: the CompareResponse is returned
CompareFinish ==
    /\ cmp.state = "running"
    /\ Len(cmp.results) = Len(cmp.unique_tickers)
    /\ cmp' = [cmp EXCEPT !.state = "done"]
    /\ UNCHANGED <<dedupVars, chatVars, now, fast_cache, agent_cache, calls, last, written>>

Init == InitIdle /\ _ANSWER_CACHE = <<>> /\ last = NoAccess

\* The chat endpoint alone, with concurrent requests.
NextChat ==
    \/ \E c \in 1..NChats, r \in ChatRequests : ChatStart(c, r)
    \/ \E c \in Callers : LockGranted(c)
    \/ \E c \in Callers : AfterTask(c)
    \/ \E t \in TaskIds, so \in SearchOutcomes, lo \in GenerationOutcomes :
          RunPipeline(t, so, lo)
    \/ \E c \in Callers : Cancel(c)
    \/ Tick(LongWait)

SpecChat == Init /\ [][NextChat]_vars

\* The event loop runs every callback that is ready; requests, time and
\* cancellation are up to the environment.
ChatProgress ==
    \/ \E c \in Callers : LockGranted(c)
    \/ \E c \in Callers : AfterTask(c)
    \/ \E t \in TaskIds, so \in SearchOutcomes, lo \in GenerationOutcomes :
          RunPipeline(t, so, lo)

SpecChatFair == SpecChat /\ WF_vars(ChatProgress)

\* The chat and compare endpoints side by side. With NAppChats = 1 chat
\* request nobody ever waits for _dedup_lock.
Next ==
    \/ \E c \in 1..NAppChats, r \in ChatRequests : ChatStart(c, r)
    \/ \E c \in Callers : AfterTask(c)
    \/ \E t \in TaskIds, so \in SearchOutcomes, lo \in GenerationOutcomes :
          RunPipeline(t, so, lo)
    \/ \E c \in Callers : Cancel(c)
    \/ \E r \in CompareRequests : CompareStart(r)
    \/ \E so \in SearchOutcomes, lo \in GenerationOutcomes : CompareTicker(so, lo)
    \/ CompareFinish
    \/ Tick(LongWait)

Spec == Init /\ [][Next]_vars

\* ------------------------------------------------------------------------
\* The answer cache at its size limit: _ANSWER_CACHE_MAX_SIZE earlier chat
\* requests, one per ticker, were answered and cached at time 0.
\* ------------------------------------------------------------------------
\* the i-th two-letter ticker, i in 0..675
Filler(i) == <<UpperLetters[(i \div 26) + 1], UpperLetters[(i % 26) + 1]>>

FillerRequest(i) == ChatRequest(Filler(i), <<"q">>, "vector", "both", FALSE)

\* what chat caches for request r after a successful pipeline run
FillerAnswer(r) ==
    ChatResponseOf(Result(NoError,
                          Answer("generated", r.ticker, r.question,
                                 Found("search", r.question, r.ticker, r.sources)),
                          Found("search", r.question, r.ticker, r.sources),
                          Some(r.overrides)),
                   r.overrides)

FilledCache ==
    LET keys == { _get_cache_key(Filler(i), <<"q">>, "openai") :
                      i \in 0..(_ANSWER_CACHE_MAX_SIZE - 1) }
        asked == [k \in keys |->
                     CHOOSE i \in 0..(_ANSWER_CACHE_MAX_SIZE - 1) :
                         _get_cache_key(Filler(i), <<"q">>, "openai") = k]
    IN  [k \in keys |-> [ts |-> 0, value |-> FillerAnswer(FillerRequest(asked[k]))]]

InitFull == InitIdle /\ _ANSWER_CACHE = FilledCache /\ last = NoAccess

SpecFull == InitFull /\ [][Next]_vars

\* ------------------------------------------------------------------------
\* The three TTL caches, exercised through their accessors
\* ------------------------------------------------------------------------
CacheValues == {"v1", "v2"}

TickSteps == {300, 600, 601}

CacheNames == {"answer", "fast", "agent"}

AnswerKeys == { _get_cache_key(<<"A">>, <<"q">>, "openai") }

FastKeys == { _cache_key_fast(<<"q">>, <<"A">>, "vector") }

AgentKeys == { _cache_key(<<"q">>, <<"A">>, "both", "vector") }

\* one accessor call: its arguments, the time, and what it returned
Access(cache, op, enabled, key, value, returned, hit) ==
    [cache |-> cache, op |-> op, enabled |-> enabled, key |-> key, value |-> value,
     returned |-> returned, hit |-> hit, at |-> now]

\* the set calls remembered for a key: the latest one, and the latest one
\* made while caching was enabled
Noted(w, key, value, enabled) ==
    LET call == [at |-> now, value |-> value, enabled |-> enabled]
    IN  Put(w, key, [latest |-> call,
                     kept   |-> IF enabled THEN Some(call)
                                ELSE IF key \in DOMAIN w THEN w[key].kept ELSE None])

SetAnswer(key, value) ==
    /\ last.cache = "answer"
    /\ _ANSWER_CACHE' = _set_cached_answer(_ANSWER_CACHE, key, value)
    /\ last' = Access("answer", "set", TRUE, key, Some(value), None, FALSE)
    /\ written' = [written EXCEPT !.answer = Noted(@, key, value, TRUE)]
    /\ UNCHANGED <<dedupVars, response, now, fast_cache, agent_cache, calls, cmp>>

GetAnswer(key) ==
    /\ last.cache = "answer"
    /\ _ANSWER_CACHE' = AnswerCacheAfterGet(key)
    /\ last' = Access("answer", "get", TRUE, key, None, _get_cached_answer(key), FALSE)
    /\ UNCHANGED <<dedupVars, response, now, fast_cache, agent_cache, calls, cmp, written>>

SetChunks(enabled, key, value) ==
    /\ last.cache = "fast"
    /\ fast_cache' = _set_cached_chunks(fast_cache, enabled, key, value)
    /\ last' = Access("fast", "set", enabled, key, Some(value), None, FALSE)
    /\ written' = [written EXCEPT !.fast = Noted(@, key, value, enabled)]
    /\ UNCHANGED <<dedupVars, chatVars, now, agent_cache, calls, cmp>>

GetChunks(enabled, key) ==
    /\ last.cache = "fast"
    /\ fast_cache' = FastCacheAfterGet(key)
    /\ last' = Access("fast", "get", enabled, key, None, _get_cached_chunks(key), FALSE)
    /\ UNCHANGED <<dedupVars, chatVars, now, agent_cache, calls, cmp, written>>

SetAgent(enabled, key, value) ==
    /\ last.cache = "agent"
    /\ agent_cache' = _set_cached(agent_cache, enabled, key, value)
    /\ last' = Access("agent", "set", enabled, key, Some(value), None, FALSE)
    /\ written' = [written EXCEPT !.agent = Noted(@, key, value, enabled)]
    /\ UNCHANGED <<dedupVars, chatVars, now, fast_cache, calls, cmp>>

GetAgent(enabled, key) ==
    /\ last.cache = "agent"
    /\ agent_cache' = AgentCacheAfterGet(agent_cache, enabled, key)
    /\ last' = Access("agent", "get", enabled, key, None, _get_cached(agent_cache, enabled, key),
                    FALSE)
    /\ UNCHANGED <<dedupVars, chatVars, now, fast_cache, calls, cmp, written>>

NextCache ==
    \/ \E k \in AnswerKeys, v \in CacheValues : SetAnswer(k, v)
    \/ \E k \in AnswerKeys : GetAnswer(k)
    \/ \E e \in BOOLEAN, k \in FastKeys, v \in CacheValues : SetChunks(e, k, v)
    \/ \E e \in BOOLEAN, k \in FastKeys : GetChunks(e, k)
    \/ \E e \in BOOLEAN, k \in AgentKeys, v \in CacheValues : SetAgent(e, k, v)
    \/ \E e \in BOOLEAN, k \in AgentKeys : GetAgent(e, k)
    \/ \E d \in TickSteps : Tick(d)

\* The stores are separate module globals and no accessor touches another
\* cache's store, so each behaviour exercises one of them.
InitCache ==
    /\ InitIdle
    /\ _ANSWER_CACHE = <<>>
    /\ \E c \in CacheNames : last = [NoAccess EXCEPT !.cache = c]

SpecCache == InitCache /\ [][NextCache]_vars

\* ------------------------------------------------------------------------
\* FastRAGAgent.retrieve called on its own
\* ------------------------------------------------------------------------
MaxSearches == 2

RetrieveTickers == {<<"A">>}

RetrieveQuestions == {<<"q">>, <<"Q">>}

SearchModes == {"vector", "hybrid"}

SourceFilters == {"both", "sec"}

RECURSIVE Total(_)
Total(d) == IF d = <<>> THEN 0
            ELSE LET k == CHOOSE k \in DOMAIN d : TRUE IN d[k] + Total(Pop(d, k))

Retrieve(question, ticker, search_mode, sources, enabled, so) ==
    LET got == retrieve_fast(question, ticker, search_mode, sources, enabled, so)
        args == [question |-> question, ticker |-> ticker, search_mode |-> search_mode,
                 sources |-> sources, outcome |-> so]
    IN  /\ Total(calls) < MaxSearches
        /\ fast_cache' = got.cache
        /\ calls' = got.calls
        /\ last' = Access("fast", "retrieve", enabled, args, None, Some(got.chunks), got.hit)
        /\ UNCHANGED <<dedupVars, chatVars, now, agent_cache, cmp, written>>

NextRetrieve ==
    \/ \E q \in RetrieveQuestions, t \in RetrieveTickers, m \in SearchModes,
          f \in SourceFilters, e \in BOOLEAN, so \in SearchOutcomes :
          Retrieve(q, t, m, f, e, so)
    \/ Tick(LongWait)

SpecRetrieve == Init /\ [][NextRetrieve]_vars

\* ------------------------------------------------------------------------
\* RetrieverAgent.retrieve called on its own
\* ------------------------------------------------------------------------
MaxRetrieves == 2

\* items of the index: two with an id, one without
ItemA == [id |-> <<"a">>, text |-> <<"r","i","s","k">>, section |-> <<"r","i","s","k"," ","f","a","c","t","o","r","s">>]

ItemB == [id |-> <<"b">>, text |-> <<"x">>, section |-> <<"m","d","&","a">>]

ItemN == [id |-> <<>>, text |-> <<"x">>, section |-> <<>>]

Failure == [ok |-> FALSE, items |-> <<>>]

Items(list) == [ok |-> TRUE, items |-> list]

\* what one search call can answer
SearchAnswers == {Failure, Items(<<>>), Items(<<ItemB, ItemA>>), Items(<<ItemN, ItemA, ItemN>>)}

RetrievalFlags(rerank, rewrite, cache, boost) ==
    [enable_rerank |-> rerank, enable_query_rewrite |-> rewrite,
     enable_retrieval_cache |-> cache, enable_section_boost |-> boost]

\* one call of RetrieverAgent.retrieve
AgentRetrieve(question, ticker, sources, search_mode, top_k, task_type, flags, found) ==
    LET got == retrieve(agent_cache, calls, question, ticker, sources, search_mode,
                        top_k, task_type, flags, found)
        key == _cache_key(question, ticker, sources, search_mode)
        args == [question |-> question, ticker |-> ticker, sources |-> sources,
                 search_mode |-> search_mode, top_k |-> top_k, task_type |-> task_type,
                 flags |-> flags, found |-> found]
    IN  /\ agent_cache' = got.cache
        /\ calls' = got.calls
        /\ last' = [cache |-> "agent", op |-> "retrieve",
                    enabled |-> flags.enable_retrieval_cache, key |-> key,
                    returned |-> Some(got.chunks), hit |-> got.hit, at |-> now,
                    nth |-> IF last.op = "retrieve" THEN last.nth + 1 ELSE 1,
                    args |-> args, made |-> got.made, failed |-> got.failed,
                    results |-> got.results, deduped |-> got.deduped]
        /\ written' = IF got.hit \/ got.failed THEN written
                      ELSE [written EXCEPT !.agent =
                               Noted(@, key, got.chunks, flags.enable_retrieval_cache)]
        /\ UNCHANGED <<dedupVars, chatVars, now, fast_cache, cmp>>

\* Retrieve calls one after the other, with the retrieval cache on or off.
CacheFlagChoices ==
    { RetrievalFlags(FALSE, FALSE, FALSE, FALSE),
      RetrievalFlags(FALSE, FALSE, TRUE, FALSE) }

RetrieveNext(m, f, found) ==
    /\ last.op = "retrieve" => last.nth < MaxRetrieves
    /\ AgentRetrieve(<<"r","i","s","k"," ","1","0","-","k">>, <<"K">>, "both", m, 2, "general", f, found)

NextAgent ==
    \/ \E m \in SearchModes, f \in CacheFlagChoices :
          \E found \in [{1} -> SearchAnswers] : RetrieveNext(m, f, found)
    \/ \E d \in TickSteps : Tick(d)

SpecAgent == Init /\ [][NextAgent]_vars

\* ------------------------------------------------------------------------
\* One RetrieverAgent.retrieve call on an empty cache, for every choice of
\* arguments, flags and search answers
\* ------------------------------------------------------------------------
AgentQuestions == {<<"r","i","s","k"," ","1","0","-","k">>, <<"x">>}

AgentTickers == {<<"K">>, <<"A">>}

TopKs == {1, 2}

TaskTypes == {"general", "risk_analysis"}

FlagChoices ==
    CacheFlagChoices \cup
    { RetrievalFlags(FALSE, TRUE, TRUE, FALSE),
      RetrievalFlags(TRUE, TRUE, FALSE, FALSE),
      RetrievalFlags(TRUE, FALSE, TRUE, TRUE),
      RetrievalFlags(TRUE, TRUE, TRUE, TRUE) }

\* the arguments of the call that is about to be made
Pending(question, ticker, sources, search_mode, top_k, task_type, flags) ==
    [cache |-> "agent", op |-> "pending",
     args |-> [question |-> question, ticker |-> ticker, sources |-> sources,
               search_mode |-> search_mode, top_k |-> top_k, task_type |-> task_type,
               flags |-> flags]]

InitFanOut ==
    /\ InitIdle
    /\ _ANSWER_CACHE = <<>>
    /\ \E q \in AgentQuestions, t \in AgentTickers, m \in SearchModes, k \in TopKs,
          tt \in TaskTypes, f \in FlagChoices :
          last = Pending(q, t, "both", m, k, tt, f)

\* RetrieverAgent.retrieve for the pending arguments, one answer per search call
RetrieveOnce ==
    /\ last.op = "pending"
    /\ \E found \in [1..Len(_rewrite_queries(last.args.flags.enable_query_rewrite,
                                             last.args.question, last.args.ticker))
                        -> SearchAnswers] :
          AgentRetrieve(last.args.question, last.args.ticker, last.args.sources,
                        last.args.search_mode, last.args.top_k, last.args.task_type,
                        last.args.flags, found)

\* FastRAGAgent.retrieve for the same arguments
RetrieveFastOnce(so) ==
    /\ last.op = "pending"
    /\ Retrieve(last.args.question, last.args.ticker, last.args.search_mode,
                last.args.sources, last.args.flags.enable_retrieval_cache, so)

NextFanOut ==
    \/ RetrieveOnce
    \/ \E so \in SearchOutcomes : RetrieveFastOnce(so)

SpecFanOut == InitFanOut /\ [][NextFanOut]_vars

\* ------------------------------------------------------------------------
\* RouterAgent.classify applied to a question
\* ------------------------------------------------------------------------
MaxWords == 2

ClassifyWords ==
    { <<"h","e","l","l","o">>,
      <<"T","h","a","n","k","s">>,
      <<"?">>,
      <<"b","r","i","s","k">>,
      <<"R","e","v","e","n","u","e">>,
      <<"c","a","s","h">>,
      <<"f","l","o","w">>,
      <<"g","r","o","w","t","h">>,
      <<"r","e","m","a","i","n","s">>,
      <<"f","i","l","i","n","g">>,
      <<"T","H","R","E","A","T">> }

\* the questions of 1..n words separated by one blank
RECURSIVE Phrases(_)
Phrases(n) ==
    IF n = 1 THEN ClassifyWords
    ELSE Phrases(n - 1) \cup
         { p \o <<" ">> \o w : p \in Phrases(n - 1), w \in ClassifyWords }

InitClassify ==
    /\ InitIdle
    /\ _ANSWER_CACHE = <<>>
    /\ \E q \in Phrases(MaxWords) :
          last = [cache |-> "router", op |-> "pending", question |-> q]

Classify ==
    /\ last.op = "pending"
    /\ last' = [cache |-> "router", op |-> "classify", question |-> last.question,
                task_type |-> classify(last.question)]
    /\ UNCHANGED <<dedupVars, chatVars, now, fast_cache, agent_cache, calls, cmp, written>>

SpecClassify == InitClassify /\ [][Classify]_vars

\* ------------------------------------------------------------------------
\* The two pipelines that answer a question: run_fast_pipeline
\* (FastRAGAgent.process) and run_agent_pipeline (the agent graph)
\* ------------------------------------------------------------------------
MaxRuns == 2

PipelineQuestions == {<<"h","i">>, <<"r","i","s","k">>}

PipelineRequests ==
    { ChatRequest(<<"A">>, q, m, "both", c) :
         q \in PipelineQuestions, m \in SearchModes, c \in BOOLEAN }

PipelineAnswers == {Failure, Items(<<>>), Items(<<ItemB, ItemA>>)}

\* a behaviour runs one pipeline for one request, up to MaxRuns times
InitPipelines ==
    /\ InitIdle
    /\ _ANSWER_CACHE = <<>>
    /\ \E path \in {"fast", "graph"}, r \in PipelineRequests :
          last = [cache |-> "pipeline", op |-> "pending", path |-> path, request |-> r,
                  nth |-> 0]

\* the search and the generation calls counted in `counts`
SearchCalls(counts) ==
    Total([d \in {x \in DOMAIN counts : x.op # "generate"} |-> counts[d]])

GenerateCalls(counts) ==
    Total([d \in {x \in DOMAIN counts : x.op = "generate"} |-> counts[d]])

\* the record kept of one pipeline run
Ran(task_type, result, retrieves, counts) ==
    [cache |-> "pipeline", op |-> "pipeline", path |-> last.path,
     request |-> last.request, nth |-> last.nth + 1, task_type |-> task_type,
     result |-> result, retrieves |-> retrieves,
     searches |-> SearchCalls(counts) - SearchCalls(calls),
     generations |-> GenerateCalls(counts) - GenerateCalls(calls)]

FastPipeline(so, lo) ==
    LET r   == last.request
        p   == process(r, so, lo)
        got == retrieve_fast(r.question, r.ticker, r.search_mode, r.sources,
                             r.overrides.enable_retrieval_cache, so)
        retrieves == IF is_simple_query(r.question) THEN <<>>
                     ELSE <<[search_mode |-> r.search_mode, chunks |-> got.chunks,
                             hit |-> got.hit]>>
    IN  /\ last.path = "fast"
        /\ last.nth < MaxRuns
        /\ fast_cache' = p.cache
        /\ calls' = p.calls
        /\ last' = Ran(classify(r.question), p.result, retrieves, p.calls)
        /\ UNCHANGED <<dedupVars, chatVars, now, agent_cache, cmp, written>>

\* the run `p` of the agent graph is over
GraphReturned(p) ==
    /\ agent_cache' = p.cache
    /\ calls' = p.calls
    /\ last' = Ran(p.task_type, p.result, p.retrieves, p.calls)
    /\ UNCHANGED <<dedupVars, chatVars, now, fast_cache, cmp, written>>

GraphPipeline(found1, found2, lo) ==
    /\ last.path = "graph"
    /\ last.nth < MaxRuns
    /\ GraphReturned(run_agent_pipeline(agent_cache, calls, last.request, found1,
                                        found2, lo))

NextPipelines ==
    \/ \E so \in SearchOutcomes, lo \in GenerationOutcomes : FastPipeline(so, lo)
    \/ \E found1, found2 \in [{1} -> PipelineAnswers], lo \in {"ok", "error"} :
          GraphPipeline(found1, found2, lo)

SpecPipelines == InitPipelines /\ [][NextPipelines]_vars

\* ------------------------------------------------------------------------
\* compare's fan-out under its semaphore (main.py lines 872-881): one task
\* per ticker runs process_with_limit.  Only the stages of the tasks are
\* kept here; the answers are those of CompareTicker.  FastRAGAgent.process
\* has no await of its own, so as written the tasks run one after the other;
\* the `await run_fast_pipeline(...)` of process_ticker is taken as a point
\* where a task may be suspended, so that several tasks can be inside
\* `async with semaphore` at once and the semaphore is what bounds them.
\* ------------------------------------------------------------------------
NTickers == 6

\* asyncio.Semaphore(5)
SemaphoreValue == 5

\* a semaphore that is never locked
NeverLocked(value, waiters) == FALSE

\* asyncio.Semaphore.locked
locked(value, waiters) == value = 0 \/ waiters # <<>>

\* compare reaches asyncio.gather with n distinct tickers
LimitStart(n) ==
    /\ cmp.state = "idle"
    /\ cmp' = [state |-> "limited", n |-> n, stage |-> [i \in 1..n |-> "new"],
               value |-> SemaphoreValue, waiters |-> <<>>,
               unique_tickers |-> [i \in 1..n |-> Filler(i - 1)],
               returned |-> [i \in 1..n |-> None], completed |-> <<>>]
    /\ UNCHANGED <<dedupVars, chatVars, now, fast_cache, agent_cache, calls, last, written>>

\* task i starts, in the order gather created the tasks: `async with
\* semaphore` takes a permit at once when the semaphore is not locked, and
\* queues the task otherwise; with the permit process_ticker runs up to the
\* await of the pipeline
Acquire(i) ==
    /\ cmp.state = "limited"
    /\ i \in 1..cmp.n
    /\ cmp.stage[i] = "new"
    /\ \A j \in 1..(i - 1) : cmp.stage[j] # "new"
    /\ cmp' = IF ~locked(cmp.value, cmp.waiters)
              THEN [cmp EXCEPT !.value = @ - 1, !.stage[i] = "running"]
              ELSE [cmp EXCEPT !.waiters = Append(@, i), !.stage[i] = "waiting"]
    /\ UNCHANGED <<dedupVars, chatVars, now, fast_cache, agent_cache, calls, last, written>>

\* a task that was handed a permit is resumed and calls process_ticker
Resume(i) ==
    /\ cmp.state = "limited"
    /\ i \in 1..cmp.n
    /\ cmp.stage[i] = "woken"
    /\ cmp' = [cmp EXCEPT !.stage[i] = "running"]
    /\ UNCHANGED <<dedupVars, chatVars, now, fast_cache, agent_cache, calls, last, written>>

\* the pipeline of task i returns and the task leaves `async with`:
\* release() hands the permit to the first waiter, if there is one
Release(i) ==
    /\ cmp.state = "limited"
    /\ i \in 1..cmp.n
    /\ cmp.stage[i] = "running"
    /\ LET ticker == cmp.unique_tickers[i]
           result == CompareResult(ticker, Answer("generated", ticker, <<"q">>, <<>>),
                                   Flags(FALSE), FALSE)
           ended  == [cmp EXCEPT !.stage[i] = "done", !.returned[i] = Some(result),
                                 !.completed = Append(@, i)]
       IN  cmp' = IF cmp.waiters # <<>>
                  THEN [ended EXCEPT !.stage[Head(cmp.waiters)] = "woken",
                                     !.waiters = Tail(@)]
                  ELSE [ended EXCEPT !.value = @ + 1]
    /\ UNCHANGED <<dedupVars, chatVars, now, fast_cache, agent_cache, calls, last, written>>

\* a gather that lists the results as the tasks complete
InCompletionOrder(returned, completed) ==
    [k \in 1..Len(completed) |-> returned[completed[k]][1]]

\* asyncio.gather(*ticker_tasks): the results in the order of the awaitables
\* it was given; `completed` is the order in which the tasks completed
gather(returned, completed) ==
    [i \in 1..Len(completed) |-> returned[i][1]]

\* "\n\n".join([f"**{r.ticker}**: {r.answer}" for r in results]), as the
\* sequence of the parts joined
combined_answer(results) ==
    [i \in 1..Len(results) |-> <<results[i].ticker, results[i].answer>>]

\* asyncio.gather returns the results and compare builds its response
Gathered ==
    /\ cmp.state = "limited"
    /\ \A i \in 1..cmp.n : cmp.stage[i] = "done"
    /\ LET results == gather(cmp.returned, cmp.completed)
       IN  cmp' = [state |-> "gathered", n |-> cmp.n, stage |-> cmp.stage,
                   value |-> cmp.value, waiters |-> cmp.waiters,
                   unique_tickers |-> cmp.unique_tickers,
                   returned |-> cmp.returned, completed |-> cmp.completed,
                   results |-> results, answer |-> combined_answer(results)]
    /\ UNCHANGED <<dedupVars, chatVars, now, fast_cache, agent_cache, calls, last, written>>

NextLimit ==
    \/ \E n \in 2..NTickers : LimitStart(n)
    \/ \E i \in 1..NTickers : Acquire(i)
    \/ \E i \in 1..NTickers : Resume(i)
    \/ \E i \in 1..NTickers : Release(i)
    \/ Gathered

SpecLimit == Init /\ [][NextLimit]_vars

\* The event loop runs every task that is ready, and a pipeline returns.
LimitProgress ==
    \/ \E i \in 1..NTickers : Acquire(i)
    \/ \E i \in 1..NTickers : Resume(i)
    \/ \E i \in 1..NTickers : Release(i)
    \/ Gathered

SpecLimitFair == SpecLimit /\ WF_vars(LimitProgress)

\* ------------------------------------------------------------------------
\* app/main.py chat_batch (lines 623-759): one process_request per request,
\* gathered, then a comparative summary asked of the generation
\* collaborator.  process_request never suspends, so the tasks run one
\* after the other in the order gather was given them.  The batch in
\* progress is kept in `last`; last.llm is the condition of the generation
\* collaborator of each provider while the batch is served.
\* ------------------------------------------------------------------------
MaxBatch == 2

Providers == {"openai", "anthropic"}

BatchRequests ==
    { [ChatRequest(t, q, "vector", "both", FALSE) EXCEPT !.model_provider = p] :
          t \in {<<"A">>, <<"B">>}, q \in {<<"q">>, <<"h","i">>}, p \in Providers }

Batches == UNION { [1..n -> BatchRequests] : n \in 1..MaxBatch }

InitBatch ==
    /\ InitIdle
    /\ _ANSWER_CACHE = <<>>
    /\ \E requests \in Batches, llm \in [Providers -> GenerationOutcomes] :
          last = [op |-> "chat_batch", state |-> "pending", requests |-> requests,
                  llm |-> llm, results |-> <<>>]

\* chat_batch up to asyncio.gather (main.py lines 635-641, 734-735)
BatchStart ==
    /\ last.op = "chat_batch"
    /\ last.state = "pending"
    /\ last' = [last EXCEPT !.state = IF Len(last.requests) < 2
                                      THEN "rejected" ELSE "running"]
    /\ UNCHANGED <<dedupVars, chatVars, now, fast_cache, agent_cache, calls, cmp, written>>

BatchResponse(answer, citations, flags, cache_hit) ==
    [type |-> "ChatResponse", answer |-> answer, citations |-> citations,
     flags |-> flags, cache_hit |-> cache_hit]

\* process_request(req) (main.py lines 643-731) when the pipeline returned
\* p: the response and the success mark
process_request(r, p) ==
    IF is_simple_query(r.question)
    THEN [response |-> BatchResponse(Answer("simple", <<>>, <<>>, <<>>), <<>>,
                                     [summary |-> "simple_query=true"], FALSE),
          success |-> TRUE, cache |-> fast_cache, calls |-> calls]
    ELSE IF p.result.error # NoError
    THEN [response |-> BatchResponse(Answer("error", r.ticker, r.question, <<>>), <<>>,
                                     [summary |-> "error=true"], FALSE),
          success |-> FALSE, cache |-> p.cache, calls |-> p.calls]
    ELSE [response |-> ChatResponseOf(p.result, r.overrides),
          success |-> TRUE, cache |-> p.cache, calls |-> p.calls]

\* the task of the next request runs
BatchRequest(so) ==
    /\ last.op = "chat_batch"
    /\ last.state = "running"
    /\ Len(last.results) < Len(last.requests)
    /\ LET r == last.requests[Len(last.results) + 1]
           done == process_request(r, process(r, so, last.llm[r.model_provider]))
       IN  /\ last' = [last EXCEPT !.results =
                          Append(@, [response |-> done.response, success |-> done.success])]
           /\ fast_cache' = done.cache
           /\ calls' = done.calls
    /\ UNCHANGED <<dedupVars, chatVars, now, agent_cache, cmp, written>>

\* sum(1 for r in results if r[1])
successful(results) == Cardinality({i \in 1..Len(results) : results[i].success})

\* asyncio.gather is complete (main.py lines 737-759): the comparative
\* summary is asked of the collaborator of the first request's provider,
\* outside any handler but the endpoint's own
BatchSummary ==
    /\ last.op = "chat_batch"
    /\ last.state = "running"
    /\ Len(last.results) = Len(last.requests)
    /\ LET provider == last.requests[1].model_provider
           total == Len(last.requests)
           generate == [op |-> "summary", question |-> last.requests[1].question,
                        ticker |-> <<>>, sources |-> provider]
       IN  /\ calls' = Bump(calls, generate)
           /\ last' =
                IF last.llm[provider] = "ok"
                THEN [op |-> "chat_batch", state |-> "answered",
                      requests |-> last.requests, llm |-> last.llm,
                      results |-> last.results,
                      responses |-> [i \in 1..Len(last.results) |-> last.results[i].response],
                      total |-> total,
                      successful |-> successful(last.results),
                      failed |-> total - successful(last.results)]
                ELSE \* except Exception: raise HTTPException(status_code=500)
                     [last EXCEPT !.state = "failed"]
    /\ UNCHANGED <<dedupVars, chatVars, now, fast_cache, agent_cache, cmp, written>>

NextBatch ==
    \/ BatchStart
    \/ \E so \in SearchOutcomes : BatchRequest(so)
    \/ BatchSummary

SpecBatch == InitBatch /\ [][NextBatch]_vars

\* ------------------------------------------------------------------------
\* The two request keys on their own: the key of the coalescer and the key
\* of the answer cache are taken for two chat requests with the same
\* model_provider and search_mode.
\* ------------------------------------------------------------------------
KeyTickers == { <<"A">>, <<"a">>, <<" ","a">>, <<"a"," ">>, <<"B">> }

KeyQuestions == { <<"q">>, <<"Q">>, <<" ","q">>, <<"q"," ">>, <<"r">> }

KeyKwargs ==
    { [model_provider |-> p, search_mode |-> m] :
          p \in {"openai", "anthropic"}, m \in {"vector", NoArg} }

InitKeys ==
    /\ InitIdle
    /\ _ANSWER_CACHE = <<>>
    /\ \E t1, t2 \in KeyTickers, q1, q2 \in KeyQuestions, kw \in KeyKwargs :
          last = [op |-> "pending",
                  args |-> [first  |-> [ticker |-> t1, question |-> q1],
                            second |-> [ticker |-> t2, question |-> q2],
                            kwargs |-> kw]]

\* chat takes both keys of a request (main.py lines 487 and 541-547)
KeysOf(r, kwargs) ==
    [request_key |-> _create_request_key(r.ticker, r.question, kwargs),
     cache_key   |-> _get_cache_key(r.ticker, r.question, kwargs.model_provider)]

TakeKeys ==
    /\ last.op = "pending"
    /\ last' = [op |-> "keys", args |-> last.args,
                first  |-> KeysOf(last.args.first, last.args.kwargs),
                second |-> KeysOf(last.args.second, last.args.kwargs)]
    /\ UNCHANGED <<dedupVars, chatVars, now, fast_cache, agent_cache, calls, cmp, written>>

NextKeys == TakeKeys

SpecKeys == InitKeys /\ [][NextKeys]_vars

\* ------------------------------------------------------------------------
\* The chat endpoint with concurrent requests for one ticker and question
\* that differ in the sources filter and in the retrieval overrides.
\* ------------------------------------------------------------------------
SharedRequests ==
    { ChatRequest(<<"A">>, <<"q">>, "vector", "both", FALSE),
      ChatRequest(<<"A">>, <<"q">>, "vector", "sec", FALSE),
      ChatRequest(<<"a">>, <<"q">>, "vector", "both", TRUE),
      ChatRequest(<<"A">>, <<"q">>, "hybrid", "both", FALSE) }

NextShared ==
    \/ \E c \in 1..NChats, r \in SharedRequests : ChatStart(c, r)
    \/ \E c \in Callers : LockGranted(c)
    \/ \E c \in Callers : AfterTask(c)
    \/ \E t \in TaskIds, so \in SearchOutcomes, lo \in GenerationOutcomes :
          RunPipeline(t, so, lo)
    \/ \E c \in Callers : Cancel(c)
    \/ Tick(LongWait)

SpecShared == Init /\ [][NextShared]_vars

\* ------------------------------------------------------------------------
\* RetrieverAgent.retrieve called again and again for one question and
\* ticker with the retrieval cache on and a top_k of the caller's choice;
\* the search collaborator answers with at most top_k items.
\* ------------------------------------------------------------------------
RetrieveTopK(k, found) ==
    /\ last.op = "retrieve" => last.nth < MaxRetrieves
    /\ Len(found[1].items) <= k
    /\ AgentRetrieve(<<"r","i","s","k"," ","1","0","-","k">>, <<"K">>, "both", "vector",
                     k, "general", RetrievalFlags(FALSE, FALSE, TRUE, FALSE), found)

NextTopK ==
    \/ \E k \in TopKs, found \in [{1} -> SearchAnswers] : RetrieveTopK(k, found)
    \/ \E d \in TickSteps : Tick(d)

SpecTopK == Init /\ [][NextTopK]_vars

\* ------------------------------------------------------------------------
\* Properties of the coalescer
\* ------------------------------------------------------------------------
IsTask(t) == t <= Len(tasks)

\* the callers that started task t or were coalesced onto it
Attached(t) == {c \in Callers : task_of[c] = t}

\* no caller has been cancelled
NoneCancelled == \A c \in Callers : outcome[c].kind # "cancelled"

\* every caller of task t is back with the task's result, the caller that
\* started it with wasCoalesced = false and all others with true
\* (a caller that was itself cancelled is back as well)
SettledWithResult(t) ==
    \A c \in Attached(t) :
        /\ pc[c] = "done"
        /\ \/ outcome[c].kind = "cancelled"
           \/ /\ outcome[c].kind = "return"
              /\ outcome[c].result = tasks[t].result[1]
              /\ outcome[c].coalesced = (c # tasks[t].owner)

\* C1: N overlapping calls with one fingerprint share one handler execution,
\* and once it has produced its result all N callers return that result,
\* N-1 of them with wasCoalesced = true (unless a caller is cancelled).
C1_AllCallersReturn ==
    \A t \in TaskIds :
        (IsTask(t) /\ tasks[t].state = "done" /\ NoneCancelled)
            ~> (SettledWithResult(t) \/ ~NoneCancelled)

\* C2: a call that attached as a waiter is released once the execution it
\* waits for has resolved (unless a caller is cancelled).
C2_WaitersReleased ==
    \A c \in Callers :
        (pc[c] = "inner_wait" /\ tasks[task_of[c]].state \in Resolved /\ NoneCancelled)
            ~> (pc[c] = "done" \/ ~NoneCancelled)

\* C3: once the execution for a fingerprint has resolved, its entry leaves
\* the pending table (unless a caller is cancelled).
C3_PendingRemoved ==
    \A t \in TaskIds :
        (IsTask(t) /\ tasks[t].state \in Resolved /\ NoneCancelled)
            ~> (\/ \A k \in DOMAIN _pending_requests : _pending_requests[k] # t
                \/ ~NoneCancelled)

\* C4: when the shared execution fails, every caller attached to it gets
\* that failure (unless a caller is cancelled).
C4_FailureShared ==
    \A t \in TaskIds :
        (IsTask(t) /\ tasks[t].state = "failed" /\ NoneCancelled)
            ~> (\/ \A c \in Attached(t) : pc[c] = "done" /\ outcome[c].kind = "raise"
                \/ ~NoneCancelled)

\* C6: a shared execution is never cancelled while a caller that was not
\* itself cancelled is attached to it.
C6_CancelKeepsExecution ==
    \A t \in TaskIds : \A c \in Callers :
        (IsTask(t) /\ tasks[t].state = "cancelled" /\ task_of[c] = t)
            => outcome[c].kind = "cancelled"

\* ------------------------------------------------------------------------
\* Properties of the chat and compare endpoints
\* ------------------------------------------------------------------------
\* calls made to the generation collaborator so far
GenerationCalls == Total([d \in {x \in DOMAIN calls : x.op = "generate"} |-> calls[d]])

\* two identical chat requests share pipeline run t, which produced an answer
SharedRun(t) ==
    /\ IsTask(t)
    /\ Cardinality(Attached(t)) = 2
    /\ \A c, d \in Attached(t) : req[c].via = "chat" /\ req[c] = req[d]
    /\ tasks[t].state = "done"
    /\ tasks[t].result[1].answer.kind = "generated"

\* C5: two concurrent identical chat requests cause one pipeline run and one
\* generation call, and both complete with the answer of that run (unless a
\* request is cancelled).
C5_ChatCoalesced ==
    \A t \in TaskIds :
        (SharedRun(t) /\ NoneCancelled)
            ~> (\/ /\ GenerationCalls = 1
                   /\ \A c \in Attached(t) :
                          /\ response[c].status = 200
                          /\ response[c].body.answer = tasks[t].result[1].answer
                \/ ~NoneCancelled)

\* C7: the answer cache never holds more than _ANSWER_CACHE_MAX_SIZE entries.
C7_AnswerCacheBounded == Cardinality(DOMAIN _ANSWER_CACHE) <= _ANSWER_CACHE_MAX_SIZE

\* C9: no pipeline result that carries an error is stored in the answer
\* cache, by chat or by compare.
C9_NoErrorCached ==
    \A k \in DOMAIN _ANSWER_CACHE : _ANSWER_CACHE[k].value.answer.kind # "error"

\* ------------------------------------------------------------------------
\* Properties of the TTL caches
\* ------------------------------------------------------------------------
StoreOf(cache) ==
    CASE cache = "answer" -> _ANSWER_CACHE
      [] cache = "fast"   -> fast_cache
      [] OTHER            -> agent_cache

TTLOf(cache) ==
    CASE cache = "answer" -> _ANSWER_CACHE_TTL
      [] cache = "fast"   -> retrieval_cache_ttl_seconds
      [] OTHER            -> AgentTTL

\* the most recent set call for the key of the latest access ...
LatestSet ==
    IF last.key \in DOMAIN written[last.cache]
    THEN Some(written[last.cache][last.key].latest) ELSE None

\* ... and the most recent one made while caching was enabled
KeptSet ==
    IF last.key \in DOMAIN written[last.cache]
    THEN written[last.cache][last.key].kept ELSE None

\* the latest access was a get that answered from set call `call`: the value
\* of that call while its age is within the ttl, afterwards absent with the
\* entry gone from the store
AnsweredFrom(call) ==
    IF call # None /\ last.at - call[1].at <= TTLOf(last.cache)
    THEN last.returned = Some(call[1].value)
    ELSE last.returned = None /\ last.key \notin DOMAIN StoreOf(last.cache)

\* C8 as stated: for each TTL cache, get(k) returns the value of the most
\* recent set(k, v) exactly while now - storedAt <= ttl, and an expired entry
\* is absent and removed by the lookup.
C8_AsStated == last.op = "get" => AnsweredFrom(LatestSet)

\* C8: for the answer cache, and for a retrieval cache with respect to the
\* set calls made while retrieval caching was enabled, get(k) returns the
\* value of the most recent set(k, v) exactly while now - storedAt <= ttl, an
\* expired entry being absent and removed by the lookup; a set made with
\* retrieval caching disabled stores nothing, and RetrieverAgent's get made
\* with it disabled returns absent.
C8_EnabledRoundTripAndExpiry ==
    /\ last.op = "get" =>
           IF last.cache = "agent" /\ ~last.enabled
           THEN last.returned = None
           ELSE AnsweredFrom(KeptSet)
    /\ last.op = "set" =>
           IF last.enabled
           THEN /\ last.key \in DOMAIN StoreOf(last.cache)
                /\ StoreOf(last.cache)[last.key] = [ts |-> last.at, value |-> last.value[1]]
           ELSE \/ last.key \notin DOMAIN StoreOf(last.cache)
                \/ /\ KeptSet # None
                   /\ StoreOf(last.cache)[last.key] =
                          [ts |-> KeptSet[1].at, value |-> KeptSet[1].value]

\* C8 witness: a retrieval cache answers a lookup made exactly ttl seconds
\* after the set, and another lookup finds an expired entry.
C8_AtTheBoundary ==
    /\ last.op = "get"
    /\ last.cache = "agent"
    /\ last.enabled
    /\ KeptSet # None
    /\ last.at - KeptSet[1].at = AgentTTL
    /\ last.returned = Some(KeptSet[1].value)

\* ------------------------------------------------------------------------
\* Properties of FastRAGAgent.retrieve
\* ------------------------------------------------------------------------
\* the passage was found by a search for these arguments
FoundFor(chunk, args) ==
    /\ chunk.ticker = args.ticker
    /\ chunk.sources = args.sources
    /\ chunk.op = (IF args.search_mode = "hybrid" THEN "hybrid_search" ELSE "search")
    /\ Prefix(strip(lower(chunk.query)), 100) = Prefix(strip(lower(args.question)), 100)

\* C10: a retrieve call is served from the retrieval cache only by a list
\* stored for the same entity, sources filter, mode and question, and on a
\* miss (caching enabled, search answered) the list returned is the one
\* written back under the key.
C10_KeyedByAllFour ==
    last.op = "retrieve" =>
        LET args == last.key
            key == _cache_key_fast(args.question, args.ticker, args.search_mode)
            chunks == last.returned[1]
        IN  IF last.hit
            THEN \A i \in 1..Len(chunks) : FoundFor(chunks[i], args)
            ELSE (last.enabled /\ args.outcome # "error") =>
                     /\ key \in DOMAIN fast_cache
                     /\ fast_cache[key].value = chunks

\* ------------------------------------------------------------------------
\* Properties of RetrieverAgent.retrieve
\* ------------------------------------------------------------------------
\* the step is a call of RetrieverAgent.retrieve
RetrieveStep == last' # last /\ last'.op = "retrieve"

\* the list stored for the key of that call by the latest retrieve that
\* stored one, as it stood before the call
StoredBefore ==
    IF last'.key \in DOMAIN written.agent THEN written.agent[last'.key].kept ELSE None

\* C11: a retrieve answered from the cache returns the stored list and makes
\* no search call; with caching enabled, a retrieve for a key whose list was
\* stored at most ttl seconds earlier is answered from the cache.
C11_CacheHitSkipsSearch ==
    [][RetrieveStep =>
          /\ last'.hit =>
                /\ calls' = calls
                /\ last'.made = 0
                /\ StoredBefore # None
                /\ last'.returned = Some(StoredBefore[1].value)
          /\ ( /\ last'.enabled
               /\ StoredBefore # None
               /\ now - StoredBefore[1].at <= AgentTTL ) => last'.hit]_vars

\* C11 witness: the second of two identical retrieves is answered from the
\* cache with a list of two items after one search call in all.
C11_SecondRetrieveHits ==
    /\ last.op = "retrieve"
    /\ last.nth = 2
    /\ last.hit
    /\ last.made = 0
    /\ Len(last.returned[1]) = 2
    /\ last.returned[1][1].id = ItemB.id
    /\ Total(calls) = 1

\* the latest call was a RetrieverAgent.retrieve that went to the collaborator
Fanned == last.op = "retrieve" /\ last.cache = "agent" /\ ~last.hit

\* the items handed back by the search calls that answered, in fan-out order
Answered == Extended(last.args.found, Len(last.args.found))

\* C15: a search call that fails during fan-out contributes zero items, and
\* the items of the other calls are still merged, reranked and returned.
C15_FailureCaughtPerCall ==
    Fanned =>
        last.returned =
            Some(_rerank(last.args.flags.enable_rerank, last.args.question,
                         Deduped(Answered, {}), last.args.task_type, last.args.top_k,
                         last.args.flags.enable_section_boost))

\* the step is a retrieve call in which every search call made failed
AllFailed ==
    /\ last' # last
    /\ last'.op = "retrieve"
    /\ ~last'.hit
    /\ IF last'.cache = "agent"
       THEN \A i \in DOMAIN last'.args.found : ~last'.args.found[i].ok
       ELSE last'.key.outcome = "error"

\* nothing was written to cache `c` by the step
NothingWritten(c) == \A k \in DOMAIN c' : k \in DOMAIN c /\ c'[k] = c[k]

\* C16: a retrieve call (RetrieverAgent's or FastRAGAgent's) whose search
\* calls all fail returns the empty list, and writes nothing to the retrieval
\* caches.
C16_TotalFailureReturnsEmpty ==
    [][AllFailed =>
          /\ last'.returned = Some(<<>>)
          /\ NothingWritten(agent_cache)
          /\ NothingWritten(fast_cache)]_vars

\* C16 witness: RetrieverAgent.retrieve with caching on and query rewriting
\* on returned the empty list after its first search call failed.
C16_FirstCallFailed ==
    /\ Fanned
    /\ last.enabled
    /\ Len(last.args.found) > 1
    /\ \A i \in DOMAIN last.args.found : ~last.args.found[i].ok
    /\ last.made = 1
    /\ last.returned = Some(<<>>)
    /\ agent_cache = <<>>

\* two items with the same identity
SameIdentity(a, b) == a.id # <<>> /\ a.id = b.id

\* the positions of the merged results whose identity was not seen before
Firsts(results) ==
    {i \in 1..Len(results) : \A j \in 1..(i - 1) : ~SameIdentity(results[j], results[i])}

\* the k-th smallest element of a set of numbers
Kth(set, k) == CHOOSE i \in set : Cardinality({j \in set : j <= i}) = k

\* C17: the merge keeps, for each identity, the first item seen in fan-out
\* order and every item without an identity, in the order of first return.
C17_FirstSeenWins ==
    (Fanned /\ ~last.failed) =>
        LET results == last.results
            deduped == last.deduped
        IN  /\ results = Answered
            /\ Len(deduped) = Cardinality(Firsts(results))
            /\ \A k \in 1..Len(deduped) : deduped[k] = results[Kth(Firsts(results), k)]
            /\ \A i \in 1..Len(results) :
                  results[i].id = <<>> => \E k \in 1..Len(deduped) : deduped[k] = results[i]

\* C17 witness: two search calls returned five items, one identity twice and
\* two items without identity, and four were kept.
C17_DuplicateDropped ==
    /\ Fanned
    /\ ~last.failed
    /\ Len(last.results) = 5
    /\ Len(last.deduped) = 4
    /\ \E i, j \in 1..5 : i < j /\ SameIdentity(last.results[i], last.results[j])
    /\ Cardinality({i \in 1..5 : last.results[i].id = <<>>}) = 2

\* the score of an item of the latest call
ScoreOf(r) ==
    _score(last.args.question, r, last.args.task_type, last.args.flags.enable_section_boost)

\* the place of item i of `list` after a stable sort by descending score
Place(list, i) ==
    1 + Cardinality({j \in 1..Len(list) :
                        \/ ScoreOf(list[j]) > ScoreOf(list[i])
                        \/ ScoreOf(list[j]) = ScoreOf(list[i]) /\ j < i})

Min(a, b) == IF a <= b THEN a ELSE b

\* C18: with reranking enabled the list returned is the deduplicated list
\* sorted by descending score, items of equal score in their prior order, cut
\* to top_k; with reranking disabled it is the first top_k deduplicated items.
C18_RerankStableTopK ==
    (Fanned /\ ~last.failed) =>
        LET deduped  == last.deduped
            returned == last.returned[1]
        IN  /\ Len(returned) = Min(last.args.top_k, Len(deduped))
            /\ \A p \in 1..Len(returned) :
                  IF last.args.flags.enable_rerank
                  THEN \E i \in 1..Len(deduped) :
                          Place(deduped, i) = p /\ returned[p] = deduped[i]
                  ELSE returned[p] = deduped[p]

\* C18 witness: reranking moved an item ahead of an earlier one with a lower
\* score, kept two items of equal score in their order, and cut the list.
C18_RerankedAndCut ==
    /\ Fanned
    /\ ~last.failed
    /\ last.args.flags.enable_rerank
    /\ Len(last.deduped) > 2
    /\ Len(last.returned[1]) = 2
    /\ ScoreOf(last.returned[1][1]) = ScoreOf(last.returned[1][2])
    /\ last.returned[1][2] # last.deduped[2]
    /\ ScoreOf(last.deduped[2]) < ScoreOf(last.returned[1][2])

\* ------------------------------------------------------------------------
\* Properties of RouterAgent.classify
\* ------------------------------------------------------------------------
\* the lowercased question contains a keyword of the list
Mentions(words) == AnyIn(words, lower(last.question))

\* C13: classification is first-match-wins in the order simple, risk,
\* financial, trend, summary, general; a question with a risk keyword and a
\* financial keyword that is not simple is a risk_analysis question.
C13_FirstMatchWins ==
    last.op = "classify" =>
       LET simple == is_simple_query(last.question)
           risk == Mentions(risk_keywords)
           financial == Mentions(financial_keywords)
           trend == Mentions(trend_keywords)
           summary == Mentions(summary_keywords)
       IN  /\ simple => last.task_type = "simple"
           /\ ~simple /\ risk => last.task_type = "risk_analysis"
           /\ ~simple /\ ~risk /\ financial => last.task_type = "financial_metrics"
           /\ ~simple /\ ~risk /\ ~financial /\ trend => last.task_type = "trend_analysis"
           /\ ~simple /\ ~risk /\ ~financial /\ ~trend /\ summary =>
                  last.task_type = "summary"
           /\ ~simple /\ ~risk /\ ~financial /\ ~trend /\ ~summary =>
                  last.task_type = "general"

\* C13 witness: a question with a risk keyword and a financial keyword is
\* classified risk_analysis.
C13_RiskBeforeFinancial ==
    /\ last.op = "classify"
    /\ Mentions(risk_keywords)
    /\ Mentions(financial_keywords)
    /\ last.task_type = "risk_analysis"

\* ------------------------------------------------------------------------
\* Properties of the pipelines
\* ------------------------------------------------------------------------
\* C12: a pipeline run for a question classified simple makes no search call
\* and no generation call, and returns the canned answer with no citations.
C12_SimpleSkipsSearchAndGeneration ==
    (last.op = "pipeline" /\ is_simple_query(last.request.question)) =>
        /\ last.searches = 0
        /\ last.generations = 0
        /\ last.result.answer = Answer("simple", <<>>, <<>>, <<>>)
        /\ last.result.citations = <<>>

\* C14: in every pipeline, a vector-mode retrieve that returns zero items is
\* followed by exactly one more retrieve, in hybrid mode, before the pipeline
\* gives up.
C14_EmptyVectorRetriedInHybrid ==
    ( /\ last.op = "pipeline"
      /\ last.retrieves # <<>>
      /\ last.retrieves[1].search_mode = "vector"
      /\ last.retrieves[1].chunks = <<>> ) =>
        /\ Len(last.retrieves) = 2
        /\ last.retrieves[2].search_mode = "hybrid"

\* ------------------------------------------------------------------------
\* Properties of compare
\* ------------------------------------------------------------------------
\* the identifiers of the request, trimmed and uppercased
Trimmed(tickers) == [i \in 1..Len(tickers) |-> upper(strip(tickers[i]))]

\* the distinct non-blank ones
Wanted(tickers) == Range(Trimmed(tickers)) \ {<<>>}

\* where identifier t first occurs in the request
FirstAt(tickers, t) ==
    CHOOSE i \in 1..Len(tickers) :
        /\ Trimmed(tickers)[i] = t
        /\ \A j \in 1..(i - 1) : Trimmed(tickers)[j] # t

\* `list` holds the wanted identifiers once each, in first-occurrence order
InFirstOccurrenceOrder(list, tickers) ==
    /\ Range(list) = Wanted(tickers)
    /\ Len(list) = Cardinality(Wanted(tickers))
    /\ \A i, j \in 1..Len(list) :
          i < j => FirstAt(tickers, list[i]) < FirstAt(tickers, list[j])

\* compare takes up a request
CompareArrives == cmp.state = "idle" /\ cmp'.state # "idle"

\* C19: compare works on the distinct non-blank identifiers of the request,
\* trimmed and uppercased, in first-occurrence order, with one result each in
\* that order; a request with fewer than two of them is rejected, no pipeline
\* is run for it and the answer cache is not touched.
C19_DistinctTickersInOrder ==
    /\ [](cmp.state \in {"running", "done"} =>
             /\ InFirstOccurrenceOrder(cmp.unique_tickers, cmp.request.tickers)
             /\ Len(cmp.results) <= Len(cmp.unique_tickers)
             /\ \A i \in 1..Len(cmp.results) :
                   cmp.results[i].ticker = cmp.unique_tickers[i]
             /\ cmp.state = "done" => Len(cmp.results) = Len(cmp.unique_tickers))
    /\ [][CompareArrives =>
             /\ cmp'.state = (IF Cardinality(Wanted(cmp'.request.tickers)) < 2
                              THEN "rejected" ELSE "running")
             /\ cmp'.results = <<>>
             /\ UNCHANGED <<_ANSWER_CACHE, fast_cache, calls>>]_vars
    /\ [][cmp.state = "rejected" => cmp' = cmp]_vars

\* C19 witness: a compare of four identifiers naming two entities is done
\* with two results, in the order of first occurrence.
C19_TwoOfFour ==
    /\ cmp.state = "done"
    /\ Len(cmp.request.tickers) = 4
    /\ cmp.unique_tickers = << <<"A">>, <<"B">> >>
    /\ Len(cmp.results) = 2
    /\ cmp.results[1].ticker = <<"A">>
    /\ cmp.results[2].ticker = <<"B">>

\* the tasks of the compare that are in the given stage
InStage(stage) ==
    IF cmp.state \in {"limited", "gathered"}
    THEN {i \in 1..cmp.n : cmp.stage[i] = stage} ELSE {}

\* C20: at every moment of a compare at most 5 per-ticker pipelines are
\* running, whatever the number of tickers, and every ticker's pipeline is
\* run in the end.
C20_AtMostFiveAtOnce ==
    /\ [](Cardinality(InStage("running")) <= SemaphoreValue)
    /\ (cmp.state = "limited") ~> (cmp.state = "gathered")
    /\ [](cmp.state = "gathered" => InStage("done") = 1..cmp.n)

\* C20 witness: five pipelines are running while a sixth ticker waits.
C20_SixthWaits ==
    /\ Cardinality(InStage("running")) = SemaphoreValue
    /\ InStage("waiting") # {}

\* C21: the results of a compare are one per ticker, in the order of the
\* tickers, whatever the order in which the per-ticker pipelines completed,
\* and the combined answer lists each ticker's answer under its ticker in
\* that same order.
C21_ResultsInTickerOrder ==
    cmp.state = "gathered" =>
        /\ Len(cmp.results) = Len(cmp.unique_tickers)
        /\ \A i \in 1..Len(cmp.results) :
               /\ cmp.results[i].ticker = cmp.unique_tickers[i]
               /\ cmp.returned[i] = Some(cmp.results[i])
        /\ cmp.answer = [i \in 1..Len(cmp.unique_tickers) |->
                            <<cmp.unique_tickers[i], cmp.results[i].answer>>]

\* C21 witness: the results were gathered after the last ticker's pipeline
\* completed first and the first ticker's pipeline last.
C21_CompletedOutOfOrder ==
    /\ cmp.state = "gathered"
    /\ cmp.n >= 3
    /\ cmp.completed[1] = cmp.n
    /\ cmp.completed[cmp.n] = 1

\* C22: in a compare, a pipeline that fails does not abort the others: the
\* compare is answered with one result per ticker, the result of a ticker
\* whose pipeline failed carries the error answer of that pipeline, and the
\* result of every ticker whose pipeline did not fail carries its answer.
C22_FailureStaysInItsSlot ==
    cmp.state \in {"running", "done"} =>
        /\ Len(cmp.piped) = Len(cmp.results)
        /\ Len(cmp.results) <= Len(cmp.unique_tickers)
        /\ cmp.state = "done" => Len(cmp.results) = Len(cmp.unique_tickers)
        /\ \A i \in 1..Len(cmp.results) :
               /\ cmp.results[i].ticker = cmp.unique_tickers[i]
               /\ cmp.piped[i] # None =>
                     /\ cmp.results[i].answer.ticker = cmp.unique_tickers[i]
                     /\ cmp.results[i].answer.kind = "error" <=> cmp.piped[i][1]
                     /\ cmp.results[i].answer.kind \in {"generated", "no_data"}
                            <=> ~cmp.piped[i][1]

\* C22 witness: a compare of two tickers is answered after the pipeline of
\* the first ticker failed and the pipeline of the second generated an
\* answer.
C22_OneFailedOneAnswered ==
    /\ cmp.state = "done"
    /\ Len(cmp.results) = 2
    /\ cmp.piped[1] = Some(TRUE)
    /\ cmp.piped[2] = Some(FALSE)
    /\ cmp.results[1].answer.kind = "error"
    /\ cmp.results[2].answer.kind = "generated"

\* the fingerprint of the pipeline call compare makes for a ticker, taken as
\* chat takes the fingerprint of its own call
CompareFingerprint(ticker) ==
    _create_request_key(ticker, cmp.request.question,
                        [model_provider |-> cmp.request.model_provider,
                         search_mode |-> cmp.request.search_mode])

\* C23: a pipeline call of compare is coalesced like a chat request: compare
\* runs a pipeline of its own for a ticker only when no execution with the
\* same fingerprint is pending.
C23_CompareCoalesced ==
    [][(/\ cmp.state = "running"
        /\ Len(cmp'.piped) = Len(cmp.piped) + 1
        /\ cmp'.piped[Len(cmp'.piped)] # None)
       => CompareFingerprint(cmp.unique_tickers[Len(cmp.piped) + 1])
             \notin DOMAIN _pending_requests]_vars

\* the requests of the batch whose response is marked as failed
FailedSlots == {i \in 1..Len(last.results) : ~last.results[i].success}

\* C24: a batch of at least two requests that is answered has one response
\* per request, in the order of the requests, with total = successful +
\* failed and every failed request reported in its own slot; and a batch in
\* which a request failed is answered: the failure of a request never makes
\* the batch as a whole fail.
C24_BatchIsolatesFailures ==
    (last.op = "chat_batch" /\ last.state \in {"answered", "failed"}) =>
        /\ FailedSlots # {} => last.state = "answered"
        /\ last.state = "answered" =>
              /\ Len(last.responses) = Len(last.requests)
              /\ last.total = last.successful + last.failed
              /\ last.failed = Cardinality(FailedSlots)
              /\ \A i \in 1..Len(last.responses) :
                     /\ last.responses[i] = last.results[i].response
                     /\ i \in FailedSlots <=> last.responses[i].answer.kind = "error"
                     /\ last.responses[i].answer.kind # "simple" =>
                            last.responses[i].answer.ticker = last.requests[i].ticker

\* two texts that differ at most in letter case and in the whitespace
\* around them
SameButCaseAndSpace(a, b) == upper(strip(a)) = upper(strip(b))

\* C25: two requests whose tickers and questions differ only in letter case
\* or whitespace, with the same mode parameters, have the same coalescer key
\* and the same answer-cache key; requests for different tickers have
\* different keys.
C25_KeyOfNormalizedRequest ==
    last.op = "keys" =>
        LET a == last.args.first
            b == last.args.second
        IN  /\ (SameButCaseAndSpace(a.ticker, b.ticker)
                 /\ SameButCaseAndSpace(a.question, b.question))
                   => last.first = last.second
            /\ ~SameButCaseAndSpace(a.ticker, b.ticker)
                   => /\ last.first.request_key # last.second.request_key
                      /\ last.first.cache_key # last.second.cache_key

\* caller c has called with a fingerprint that is not pending and that no
\* other caller has asked for, and is on its way into deduplicate_request
AloneWithItsKey(c) ==
    /\ pc[c] = "lock_wait"
    /\ key_of(c) \notin DOMAIN _pending_requests
    /\ \A d \in Callers \ {c} : req[d] # NoReq => key_of(d) # key_of(c)

\* C26: a call whose fingerprint is not pending does not wait for the
\* requests of other fingerprints, also when waiters are attached to those:
\* it runs a handler of its own and returns, with wasCoalesced = false
\* (unless a caller is cancelled).
C26_OtherKeysDoNotBlock ==
    \A c \in Callers :
        (AloneWithItsKey(c) /\ NoneCancelled)
            ~> (\/ /\ pc[c] = "done"
                   /\ outcome[c].kind = "return" => ~outcome[c].coalesced
                \/ ~NoneCancelled)

\* C27: a chat request is only ever attached to an execution that was
\* started with its own sources filter and retrieval overrides, so that a
\* coalesced request gets a result computed with its own parameters.
C27_SharedOnlyWithOwnParameters ==
    \A c \in Callers :
        (req[c] # NoReq /\ task_of[c] # NoTask) =>
            LET owner == tasks[task_of[c]].owner
            IN  /\ req[c].sources = req[owner].sources
                /\ req[c].overrides = req[owner].overrides

\* chat request c was answered from the answer cache: it is done with a
\* response although it is not a simple query and never entered
\* deduplicate_request
ServedFromAnswerCache(c) ==
    /\ req[c] # NoReq
    /\ req[c].via = "chat"
    /\ pc[c] = "done"
    /\ task_of[c] = NoTask
    /\ response[c].status = 200
    /\ ~is_simple_query(req[c].question)

\* C28: a chat request answered from the answer cache gets a response that
\* a chat request stored, never an entry written by compare, and the
\* answer was computed under its own search mode and sources filter.
C28_CachedAnswerIsItsOwn ==
    \A c \in Callers :
        ServedFromAnswerCache(c) =>
            /\ response[c].body.type = "ChatResponse"
            /\ \A i \in 1..Len(response[c].body.answer.chunks) :
                   LET chunk == response[c].body.answer.chunks[i]
                   IN  /\ chunk.sources = req[c].sources
                       /\ chunk.op = IF req[c].search_mode = "hybrid"
                                     THEN "hybrid_search" ELSE "search"

\* C29: RetrieverAgent.retrieve returns at most top_k items, also when the
\* list comes from the retrieval cache.
C29_AtMostTopK ==
    (last.op = "retrieve" /\ last.cache = "agent") =>
        Len(last.returned[1]) <= last.args.top_k

\* C30: a retrieve call made with enable_retrieval_cache off neither reads
\* nor writes the retrieval cache: it is not served from the cache, it calls
\* the search collaborator, and it leaves the contents of the cache as they
\* were.
C30_DisabledCacheUntouched ==
    [][(RetrieveStep /\ ~last'.enabled)
       => /\ ~last'.hit
          /\ calls' # calls
          /\ fast_cache' = fast_cache
          /\ agent_cache' = agent_cache]_vars

====
